---- MODULE Spec2Model ----
(***************************************************************************)
(* A model of the settings-resolution engine of generate.py: the weighted  *)
(* choice primitive, the merge engine, linked options, triggers, the       *)
(* per-participant roll, name templating and the participant loop of main. *)
(*                                                                         *)
(* Python values are tagged records.  Lists are mutable objects that live  *)
(* in a heap and are held by reference, so that copy.deepcopy and the      *)
(* aliasing that plain assignment creates are both visible.  The shared    *)
(* random stream is a sequence of draws u, each standing for the float     *)
(* u / RandRes returned by random.random().                                *)
(***************************************************************************)
EXTENDS Integers, Sequences, FiniteSets, TLC

VARIABLES
    c_root,      \* get_choice: the mapping the key is looked up in
    c_heap,      \* get_choice: the list objects that mapping refers to
    c_key,       \* get_choice: the key
    c_default,   \* get_choice: the default passed as `value`
    c_out,       \* get_choice: what the call returned
    c_pc,        \* get_choice: "call" before the call, "done" after
    n_counter,   \* handle_name: name_counter, lower-cased raw name -> uses
    n_seen,      \* handle_name: the raw names of the calls made so far
    n_calls,     \* handle_name: the number of calls made so far
    n_last,      \* handle_name: the last call and what it returned
    r_top,       \* roll_settings: the shared weights document
    r_heap,      \* roll_settings: the list objects of the shared document
    r_calls,     \* roll_settings: the calls made on the document so far
    r_out,       \* roll_settings: what the last call returned or raised
    t_out,       \* roll_triggers: what the direct call returned or raised
    m_args,      \* main: args (multi, race, sameoptions)
    m_files,     \* main: the documents of the player files, in sorted file order
    m_weights,   \* main: the documents of the weights file, if there is one
    m_heap,      \* main: the list objects of the loaded documents
    m_stream,    \* main: the draws of the random source that are known so far
    m_pos,       \* main: the number of draws the run has made
    m_pc,        \* main: where the run is
    m_multi,     \* main: args.multi after line 194
    m_cache,     \* main: settings_cache
    m_player,    \* main: player
    m_counter,   \* main: name_counter
    m_erargs,    \* main: erargs (name, game and the options, by player)
    m_outcome,   \* main: how the run ended
    m_run,       \* main: the number of the run
    m_prev,      \* main: what the run before this one produced
    u_weights,   \* update_weights: the target mapping (weights)
    u_delta,     \* update_weights: the items of new_weights, in order
    u_heap,      \* update_weights: the list objects both refer to
    u_out,       \* update_weights: what the call returned or raised
    l_top,       \* roll_linked_options: the document passed in
    l_heap,      \* roll_linked_options: the list objects of that document
    l_out,       \* roll_linked_options: what the call returned or raised
    mt_meta,     \* main: meta_weights, the categories of the meta document in order
    mt_cache,    \* main: the documents of weights_cache, in its order
    mt_heap,     \* main: the list objects of those documents
    mt_opt,      \* roll_meta_option: what a direct call returned or raised
    mt_out       \* main: what the broadcast and the rolls after it produced

choiceVars == <<c_root, c_heap, c_key, c_default, c_out, c_pc>>

nameVars == <<n_counter, n_seen, n_calls, n_last>>

rollVars == <<r_top, r_heap, r_calls, r_out, t_out>>

mainVars == <<m_args, m_files, m_weights, m_heap, m_stream, m_pos, m_pc, m_multi, m_cache,
              m_player, m_counter, m_erargs, m_outcome, m_run, m_prev>>

mergeVars == <<u_weights, u_delta, u_heap, u_out>>

linkVars == <<l_top, l_heap, l_out>>

metaVars == <<mt_meta, mt_cache, mt_heap, mt_opt, mt_out>>

vars == <<choiceVars, nameVars, rollVars, mainVars, mergeVars, linkVars, metaVars>>

\* the variables of an operation while another operation is the one checked
NoOut == [err |-> "none"]
ChoiceIdle ==
    /\ c_root = <<>> /\ c_heap = <<>> /\ c_key = <<>> /\ c_default = NoOut
    /\ c_out = NoOut /\ c_pc = "idle"
NameIdle == n_counter = <<>> /\ n_seen = <<>> /\ n_calls = 0 /\ n_last = NoOut
RollIdle ==
    /\ r_top = <<>> /\ r_heap = <<>> /\ r_calls = 0 /\ r_out = NoOut /\ t_out = NoOut
MainIdle ==
    /\ m_args = NoOut /\ m_files = <<>> /\ m_weights = NoOut /\ m_heap = <<>>
    /\ m_stream = <<>> /\ m_pos = 0 /\ m_pc = "idle" /\ m_multi = 0 /\ m_cache = NoOut
    /\ m_player = 0 /\ m_counter = <<>> /\ m_erargs = NoOut /\ m_outcome = "none"
    /\ m_run = 0 /\ m_prev = NoOut
MergeIdle == u_weights = <<>> /\ u_delta = <<>> /\ u_heap = <<>> /\ u_out = NoOut
LinkIdle == l_top = <<>> /\ l_heap = <<>> /\ l_out = NoOut
MetaIdle ==
    /\ mt_meta = <<>> /\ mt_cache = <<>> /\ mt_heap = <<>> /\ mt_opt = NoOut /\ mt_out = NoOut

(***************************************************************************)
(* Bounds of the model.                                                    *)
(***************************************************************************)
RandRes == 3        \* random.random() takes the values 0/RandRes .. (RandRes-1)/RandRes
MaxWeight == 2      \* weights of a weighted map range over 0..MaxWeight
MaxItems == 3       \* a weighted map or a list has at most MaxItems entries

Draws == 0 .. (RandRes - 1)

(***************************************************************************)
(* Values.                                                                 *)
(***************************************************************************)
NoneV == [t |-> "none"]
S(x) == [t |-> "scalar", v |-> x]
L(a) == [t |-> "list", ref |-> a]
\* a weighted map: the dict's items in insertion order, candidate and weight
M(items) == [t |-> "map", v |-> items]
\* a nested mapping (a category): key -> value
D(f) == [t |-> "dict", v |-> f]
W(k, w) == [k |-> k, w |-> w]

\* a key is a string; pre holds its leading '+' and '-' characters, base the rest
K(b) == [pre |-> <<>>, base |-> b]
Plus(k) == [pre |-> <<"+">> \o k.pre, base |-> k.base]
Minus(k) == [pre |-> <<"-">> \o k.pre, base |-> k.base]

kx == K("x")
ky == K("y")

Ok(v, p) == [err |-> "ok", val |-> v, p |-> p]
Err(e, p) == [err |-> e, val |-> NoneV, p |-> p]

\* F applied to the value of e, computed once: a local variable assignment
With(e, F(_)) == CHOOSE r \in {F(x) : x \in {e}} : TRUE

RECURSIVE SumW(_)
SumW(items) == IF items = <<>> THEN 0 ELSE items[1].w + SumW(Tail(items))

\* itertools.accumulate(weights)[i]
Cum(items, i) == SumW(SubSeq(items, 1, i))

\* any(root[option].values())
AnyWeight(items) == \E i \in 1 .. Len(items) : items[i].w # 0

\* bisect(cum_weights, random() * total, 0, n - 1) for random() = u / RandRes
Bisect(items, u) ==
    LET n == Len(items)
        total == SumW(items)
    IN  Cardinality({i \in 1 .. (n - 1) : Cum(items, i) * RandRes <= u * total})

\* random.choices(keys, weights)[0] consuming draw u
WeightedPick(items, u) == items[Bisect(items, u) + 1].k

\* random.choices(population)[0]: population[floor(random() * n)]
UniformIndex(n, u) == ((u * n) \div RandRes) + 1

\* the draw at position p of the stream whose known prefix is s; positions past the
\* prefix read 0 and are enumerated by the callers (see RollOutcomes)
Draw(s, p) == IF p + 1 <= Len(s) THEN s[p + 1] ELSE 0

get_choice_allzero(option, root, heap, value, s, p) ==
    IF option \notin DOMAIN root THEN Ok(value, p)
    ELSE LET x == root[option] IN
         IF x.t = "list" THEN
              LET items == heap[x.ref] IN
              IF items = <<>> THEN Err("IndexError", p + 1)
              ELSE Ok(S(items[UniformIndex(Len(items), Draw(s, p))]), p + 1)
         ELSE IF x.t # "map" THEN Ok(x, p)
         ELSE IF x.v = <<>> THEN Ok(value, p)
         ELSE Ok(S(WeightedPick(x.v, Draw(s, p))), p + 1)

\* get_choice without the test of line 462 for an empty mapping
get_choice_noempty(option, root, heap, value, s, p) ==
    IF option \notin DOMAIN root THEN Ok(value, p)
    ELSE LET x == root[option] IN
         IF x.t = "list" THEN
              LET items == heap[x.ref] IN
              IF items = <<>> THEN Err("IndexError", p + 1)
              ELSE Ok(S(items[UniformIndex(Len(items), Draw(s, p))]), p + 1)
         ELSE IF x.t # "map" THEN Ok(x, p)
         ELSE IF AnyWeight(x.v)
              THEN IF SumW(x.v) <= 0 THEN Err("ValueError", p)
                   ELSE Ok(S(WeightedPick(x.v, Draw(s, p))), p + 1)
              ELSE Err("AllZero", p)

\* get_choice with the draw made before the type of the value is looked at
get_choice_eagerdraw(option, root, heap, value, s, p) ==
    IF option \notin DOMAIN root THEN Ok(value, p)
    ELSE LET x == root[option] IN
         IF x.t = "list" THEN
              LET items == heap[x.ref] IN
              IF items = <<>> THEN Err("IndexError", p + 1)
              ELSE Ok(S(items[UniformIndex(Len(items), Draw(s, p))]), p + 1)
         ELSE IF x.t # "map" THEN Ok(x, p + 1)
         ELSE IF x.v = <<>> THEN Ok(value, p + 1)
         ELSE IF AnyWeight(x.v)
              THEN IF SumW(x.v) <= 0 THEN Err("ValueError", p + 1)
                   ELSE Ok(S(WeightedPick(x.v, Draw(s, p))), p + 1)
              ELSE Err("AllZero", p + 1)

get_choice(option, root, heap, value, s, p) ==
    IF option \notin DOMAIN root THEN Ok(value, p)
    ELSE LET x == root[option] IN
         IF x.t = "list" THEN
              LET items == heap[x.ref] IN
              IF items = <<>> THEN Err("IndexError", p + 1)
              ELSE Ok(S(items[UniformIndex(Len(items), Draw(s, p))]), p + 1)
         ELSE IF x.t # "map" THEN Ok(x, p)
         ELSE IF x.v = <<>> THEN Ok(value, p)
         ELSE IF AnyWeight(x.v)
              THEN IF SumW(x.v) <= 0 THEN Err("ValueError", p)
                   ELSE Ok(S(WeightedPick(x.v, Draw(s, p))), p + 1)
              ELSE Err("AllZero", p)

(***************************************************************************)
(* SpecChoice: one call of get_choice on inputs drawn from bounded sets.   *)
(***************************************************************************)
Cands == <<"a", "b", "c", "d">>

\* the weighted maps {Cands[1]: w1, .., Cands[n]: wn}
WeightedMaps ==
    UNION {{[i \in 1 .. n |-> W(Cands[i], ws[i])] : ws \in [1 .. n -> 0 .. MaxWeight]}
           : n \in 0 .. MaxItems}

\* the lists [Cands[1], .., Cands[n]]
Lists == {[i \in 1 .. n |-> Cands[i]] : n \in 0 .. MaxItems}

ChoiceInit ==
    /\ c_key \in {kx, ky}
    /\ c_default \in {NoneV, S("dflt")}
    /\ \/ /\ c_root \in {(kx :> v) : v \in {S("a"), NoneV} \cup {M(m) : m \in WeightedMaps}}
          /\ c_heap = <<>>
       \/ /\ c_root = (kx :> L(1))
          /\ c_heap \in {<<l>> : l \in Lists}
    /\ c_out = NoneV
    /\ c_pc = "call"

GetChoiceCall ==
    /\ c_pc = "call"
    /\ \E u \in Draws :
          c_out' = get_choice(c_key, c_root, c_heap, c_default, <<u>>, 0)
    /\ c_pc' = "done"
    /\ UNCHANGED <<c_root, c_heap, c_key, c_default, nameVars, rollVars, mainVars, mergeVars, linkVars, metaVars>>

ChoiceNext == GetChoiceCall

InitChoice == ChoiceInit /\ NameIdle /\ RollIdle /\ MainIdle /\ MergeIdle /\ LinkIdle /\ MetaIdle

SpecChoice == InitChoice /\ [][ChoiceNext]_vars

ChoiceOnMap == c_key \in DOMAIN c_root /\ c_root[c_key].t = "map" /\ c_root[c_key].v # <<>>

\* C10: on a non-empty weighted map get_choice fails exactly when every weight
\* is zero, and otherwise returns a candidate of the map whose weight is positive.
C10_ChoicePositive ==
    (c_pc = "done" /\ ChoiceOnMap) =>
        LET m == c_root[c_key].v IN
        /\ (c_out.err # "ok") <=> (\A i \in 1 .. Len(m) : m[i].w = 0)
        /\ (c_out.err # "ok") => c_out.err = "AllZero"
        /\ (c_out.err = "ok") =>
              \E i \in 1 .. Len(m) : m[i].w > 0 /\ c_out.val = S(m[i].k)

C10_Witness ==
    /\ c_pc = "done" /\ ChoiceOnMap /\ c_out.err = "ok"
    /\ \E i, j \in 1 .. Len(c_root[c_key].v) :
          c_root[c_key].v[i].w = 0 /\ c_root[c_key].v[j].w > 0 /\ i > j

\* the shapes of the value get_choice finds under the key
ChoiceAbsent == c_key \notin DOMAIN c_root
ChoiceOnList == c_key \in DOMAIN c_root /\ c_root[c_key].t = "list"
ChoiceOnScalar == c_key \in DOMAIN c_root /\ c_root[c_key].t \in {"scalar", "none"}
ChoiceOnEmptyMap == c_key \in DOMAIN c_root /\ c_root[c_key].t = "map" /\ c_root[c_key].v = <<>>
ChoiceList == c_heap[c_root[c_key].ref]

\* the value returned is an element of the list under the key
ChoiceFromList ==
    c_out.err = "ok" /\ \E i \in 1 .. Len(ChoiceList) : c_out.val = S(ChoiceList[i])

\* C11 as stated: the default for an absent key and for an empty mapping, the
\* stored value for a scalar, one of the elements for a sequence.
C11_Original ==
    c_pc = "done" =>
        /\ (ChoiceAbsent \/ ChoiceOnEmptyMap) => c_out = Ok(c_default, 0)
        /\ ChoiceOnScalar => c_out = Ok(c_root[c_key], 0)
        /\ ChoiceOnList => ChoiceFromList

\* C11: get_choice returns the default when the key is absent or its value is
\* an empty mapping, the stored value when it is a scalar, one of the elements
\* when it is a sequence that is not empty, and fails with IndexError on an
\* empty sequence; the call leaves the document and its list objects as they
\* were.
C11_ChoiceCases ==
    /\ [](c_pc = "done" =>
            /\ (ChoiceAbsent \/ ChoiceOnEmptyMap) => c_out = Ok(c_default, 0)
            /\ ChoiceOnScalar => c_out = Ok(c_root[c_key], 0)
            /\ (ChoiceOnList /\ ChoiceList # <<>>) => ChoiceFromList
            /\ (ChoiceOnList /\ ChoiceList = <<>>) => c_out.err = "IndexError")
    /\ [][c_root' = c_root /\ c_heap' = c_heap]_vars

C11_Witness ==
    /\ c_pc = "done" /\ ChoiceOnList /\ Len(ChoiceList) >= 2
    /\ c_out.err = "ok" /\ c_out.val = S(ChoiceList[2])

\* C12: a get_choice call that chooses among two or more items, the elements
\* of a sequence or the candidates of a weighted map that are not all of
\* weight zero, makes exactly one draw; a call on an absent key or on a scalar
\* makes none.
C12_DrawsConsumed ==
    c_pc = "done" =>
        /\ (ChoiceOnList /\ Len(ChoiceList) >= 2) => c_out.p = 1
        /\ (ChoiceOnMap /\ Len(c_root[c_key].v) >= 2 /\ AnyWeight(c_root[c_key].v))
              => c_out.p = 1
        /\ (ChoiceAbsent \/ ChoiceOnScalar) => c_out.p = 0

C12_Witness ==
    /\ c_pc = "done" /\ ChoiceOnMap /\ Len(c_root[c_key].v) >= 2
    /\ c_out.err = "ok" /\ c_out.p = 1 /\ c_out.val = S(c_root[c_key].v[2].k)

(***************************************************************************)
(* update_weights: the merge of a delta into a target mapping.             *)
(* A delta is the sequence of the (key, value) items of new_weights in     *)
(* insertion order.  The heap holds the list objects; a list value names   *)
(* its object, so list.extend and list.remove act on every holder of it.   *)
(***************************************************************************)
N(n) == [t |-> "num", n |-> n]
KV(k, v) == [k |-> k, v |-> v]

IsPlus(k) == k.pre # <<>> /\ k.pre[1] = "+"       \* option.startswith("+")
IsMinus(k) == k.pre # <<>> /\ k.pre[1] = "-"      \* option.startswith("-")
StripKey(k) == [pre |-> <<>>, base |-> k.base]    \* option.lstrip("+-")

HasItem(items, k) == \E i \in 1 .. Len(items) : items[i].k = k
WeightIn(items, k) ==
    IF HasItem(items, k)
    THEN items[CHOOSE i \in 1 .. Len(items) : items[i].k = k].w
    ELSE 0

\* Counter(iterable): the elements in first-seen order with their counts
RECURSIVE CountSeq(_, _)
CountSeq(elems, acc) ==
    IF elems = <<>> THEN acc
    ELSE With(IF HasItem(acc, elems[1])
              THEN [i \in 1 .. Len(acc) |->
                       IF acc[i].k = elems[1] THEN W(elems[1], acc[i].w + 1) ELSE acc[i]]
              ELSE Append(acc, W(elems[1], 1)),
              LAMBDA next : CountSeq(Tail(elems), next))

\* the characters of the scalar strings of the model that are longer than one
StrChars(str) ==
    IF str = "ab" THEN <<"a", "b">>
    ELSE IF str = "aa" THEN <<"a", "a">>
    ELSE <<str>>

CounterOk(x) == x.t \in {"map", "list", "none", "scalar"}

\* Counter(x) of a value: a dict gives its items, a list or a str is counted
CounterOf(x, heap) ==
    IF x.t = "map" THEN x.v
    ELSE IF x.t = "list" THEN CountSeq(heap[x.ref], <<>>)
    ELSE IF x.t = "scalar" THEN CountSeq(StrChars(x.v), <<>>)
    ELSE <<>>

IsPositive(it) == it.w > 0
IsNegative(it) == it.w < 0

\* dict.update in place of the addition: the weight of the delta wins
CounterAdd_deltawins(a, b) ==
    LET NotInA(it) == ~HasItem(a, it.k) /\ it.w > 0 IN
    SelectSeq([i \in 1 .. Len(a) |->
                  W(a[i].k, IF HasItem(b, a[i].k) THEN WeightIn(b, a[i].k) ELSE a[i].w)],
              IsPositive)
      \o SelectSeq(b, NotInA)

\* Counter.__add__: only positive counts are kept
CounterAdd(a, b) ==
    LET NotInA(it) == ~HasItem(a, it.k) /\ it.w > 0 IN
    SelectSeq([i \in 1 .. Len(a) |-> W(a[i].k, a[i].w + WeightIn(b, a[i].k))], IsPositive)
      \o SelectSeq(b, NotInA)

\* the operands of the subtraction exchanged
CounterSub_swapped(a, b) ==
    LET NotInB(it) == ~HasItem(b, it.k) /\ it.w < 0
        rest == SelectSeq(a, NotInB)
    IN  SelectSeq([i \in 1 .. Len(b) |-> W(b[i].k, b[i].w - WeightIn(a, b[i].k))], IsPositive)
          \o [i \in 1 .. Len(rest) |-> W(rest[i].k, 0 - rest[i].w)]

\* Counter.__sub__: only positive counts are kept
CounterSub(a, b) ==
    LET NegNotInA(it) == ~HasItem(a, it.k) /\ it.w < 0
        rest == SelectSeq(b, NegNotInA)
    IN  SelectSeq([i \in 1 .. Len(a) |-> W(a[i].k, a[i].w - WeightIn(b, a[i].k))], IsPositive)
          \o [i \in 1 .. Len(rest) |-> W(rest[i].k, 0 - rest[i].w)]

InSeq(seq, e) == \E i \in 1 .. Len(seq) : seq[i] = e

\* the list without any of its e
RemoveEvery(seq, e) ==
    LET Other(x) == x # e IN SelectSeq(seq, Other)

\* list.remove(e): the list without its first e
RemoveFirst(seq, e) ==
    LET i == CHOOSE j \in 1 .. Len(seq) : seq[j] = e /\ \A l \in 1 .. (j - 1) : seq[l] # e
    IN  SubSeq(seq, 1, i - 1) \o SubSeq(seq, i + 1, Len(seq))

\* for element in new_value: cleaned_value.remove(element), both lists read live
RECURSIVE RemoveLoop(_, _, _, _)
RemoveLoop(heap, cv, nv, i) ==
    IF i > Len(heap[nv]) THEN [err |-> "ok", heap |-> heap]
    ELSE IF ~InSeq(heap[cv], heap[nv][i]) THEN [err |-> "ValueError", heap |-> heap]
    ELSE With([heap EXCEPT ![cv] = RemoveFirst(@, heap[nv][i])],
              LAMBDA next : RemoveLoop(next, cv, nv, i + 1))

Put(f, k, v) == [x \in DOMAIN f \cup {k} |-> IF x = k THEN v ELSE f[x]]

\* the cleaned weights returned in place of the updated target
Update_onlynew(f, g) == g

\* dict.update
Update(f, g) == [x \in DOMAIN f \cup DOMAIN g |-> IF x \in DOMAIN g THEN g[x] ELSE f[x]]

\* one iteration of the loop of update_weights; st = [err, cleaned, heap]
UpdateStep(weights, st, option, new_value) ==
    LET option_name == StripKey(option) IN
    IF IsPlus(option) /\ option_name \in DOMAIN weights THEN
        LET cleaned_value == weights[option_name] IN
        IF new_value.t = "list" THEN
            IF cleaned_value.t = "list"
            THEN [err |-> "ok",
                  cleaned |-> Put(st.cleaned, option_name, cleaned_value),
                  heap |-> [st.heap EXCEPT ![cleaned_value.ref] = @ \o st.heap[new_value.ref]]]
            ELSE [st EXCEPT !.err = "AttributeError"]
        ELSE IF new_value.t = "map" THEN
            IF CounterOk(cleaned_value)
            THEN [st EXCEPT !.cleaned = Put(st.cleaned, option_name,
                        M(CounterAdd(CounterOf(cleaned_value, st.heap), new_value.v)))]
            ELSE [st EXCEPT !.err = "TypeError"]
        ELSE [st EXCEPT !.err = "MergeType"]
    ELSE IF IsMinus(option) /\ option_name \in DOMAIN weights THEN
        LET cleaned_value == weights[option_name] IN
        IF new_value.t = "list" THEN
            IF st.heap[new_value.ref] = <<>>
            THEN [st EXCEPT !.cleaned = Put(st.cleaned, option_name, cleaned_value)]
            ELSE IF cleaned_value.t = "list"
            THEN With(RemoveLoop(st.heap, cleaned_value.ref, new_value.ref, 1),
                      LAMBDA r :
                         [err |-> r.err,
                          cleaned |-> IF r.err = "ok"
                                      THEN Put(st.cleaned, option_name, cleaned_value)
                                      ELSE st.cleaned,
                          heap |-> r.heap])
            ELSE [st EXCEPT !.err = "AttributeError"]
        ELSE IF new_value.t = "map" THEN
            IF CounterOk(cleaned_value)
            THEN [st EXCEPT !.cleaned = Put(st.cleaned, option_name,
                        M(CounterSub(CounterOf(cleaned_value, st.heap), new_value.v)))]
            ELSE [st EXCEPT !.err = "TypeError"]
        ELSE [st EXCEPT !.err = "RemoveType"]
    ELSE [st EXCEPT !.cleaned = Put(st.cleaned, option_name, new_value)]

RECURSIVE UpdateLoop(_, _, _, _)
UpdateLoop(weights, new_weights, i, st) ==
    IF i > Len(new_weights) \/ st.err # "ok" THEN st
    ELSE With(UpdateStep(weights, st, new_weights[i].k, new_weights[i].v),
              LAMBDA next : UpdateLoop(weights, new_weights, i + 1, next))

\* update_weights: [err, weights, heap]; on an exception the target is as it was,
\* the list objects as far as they were changed
update_weights(weights, new_weights, heap) ==
    With(UpdateLoop(weights, new_weights, 1, [err |-> "ok", cleaned |-> <<>>, heap |-> heap]),
         LAMBDA st :
            [err |-> st.err,
             weights |-> IF st.err = "ok" THEN Update(weights, st.cleaned) ELSE weights,
             heap |-> st.heap])

(***************************************************************************)
(* SpecMerge: one call of update_weights on a target and a delta drawn     *)
(* from bounded sets.  The target and the delta are trees: no list object  *)
(* is held twice.  The list objects 1 and 2 belong to the target, 3 and 4  *)
(* to the delta.                                                           *)
(***************************************************************************)
MaxList == 2        \* a list of the merge inputs has at most MaxList elements

MergeElems == {"1", "2", "3"}
MergeLists == UNION {[1 .. n -> MergeElems] : n \in 0 .. MaxList}

\* the weighted maps over some of the candidates a and b, in that order
MergeMaps ==
    {<<>>}
      \cup {<<W(c, w)>> : c \in {"a", "b"}, w \in 0 .. MaxWeight}
      \cup {<<W("a", w1), W("b", w2)>> : w1, w2 \in 0 .. MaxWeight}

k_z == K("z")

MergeCase(weights, delta, heap) == [weights |-> weights, delta |-> delta, heap |-> heap]

\* +x and -x with a list, on a target whose x is a list
ListCases ==
    {MergeCase((kx :> L(1)) @@ (ky :> S("k")), <<KV(k, L(3))>>, <<base, <<>>, dl, <<>>>>) :
        k \in {Plus(kx), Minus(kx)}, base \in MergeLists, dl \in MergeLists}

\* +x and -x with a weighted map, on a target whose x is a weighted map
MapCases ==
    {MergeCase((kx :> M(base)) @@ (ky :> S("k")), <<KV(k, M(dm))>>, <<>>) :
        k \in {Plus(kx), Minus(kx)}, base \in MergeMaps, dm \in MergeMaps}

\* x, +x and -x with a value of each type, on a target whose x is of each type
TypeCases ==
    {MergeCase(w, <<KV(k, v)>>, <<<<"a">>, <<>>, dl, <<>>>>) :
        w \in {(kx :> bv) @@ (ky :> S("k")) :
                  bv \in {S("ab"), S("aa"), N(5), NoneV, L(1), M(<<W("a", 1)>>)}}
                \cup {(ky :> S("k"))},
        k \in {kx, Plus(kx), Minus(kx)},
        v \in {L(3), M(<<W("a", 1)>>), S("s"), N(1)},
        dl \in {<<>>, <<"a">>}}

\* deltas of one and two items, with keys of no, one and two prefix characters,
\* on a target that has the keys x, -x and y
PrefixKeys == {kx, Plus(kx), Minus(kx), Plus(Minus(kx)), Minus(Minus(kx)), ky, k_z}
PrefixCases ==
    {MergeCase((kx :> L(1)) @@ (Minus(kx) :> L(2)) @@ (ky :> S("k")), d,
               <<<<"a">>, <<"c">>, <<"b">>, <<"a">>>>) :
        d \in {<<KV(k1, v1)>> : k1 \in PrefixKeys, v1 \in {L(3), S("s")}}
                \cup {<<KV(kk[1], v1), KV(kk[2], v2)>> :
                         kk \in {pair \in PrefixKeys \X PrefixKeys : pair[1] # pair[2]},
                         v1 \in {L(3), S("s")}, v2 \in {L(4), S("t")}}}

MergeCases == ListCases \cup MapCases \cup TypeCases \cup PrefixCases

MergeInit ==
    /\ \E c \in MergeCases :
          /\ u_weights = c.weights
          /\ u_delta = c.delta
          /\ u_heap = c.heap
    /\ u_out = NoOut

\* update_weights(weights, new_weights, ...): u_weights, u_delta and u_heap
\* keep what the call was given, u_out holds what it left
UpdateWeightsCall ==
    /\ u_out = NoOut
    /\ u_out' = update_weights(u_weights, u_delta, u_heap)
    /\ UNCHANGED <<u_weights, u_delta, u_heap, choiceVars, nameVars, rollVars, mainVars,
                   linkVars, metaVars>>

MergeNext == UpdateWeightsCall

InitMerge == MergeInit /\ ChoiceIdle /\ NameIdle /\ RollIdle /\ MainIdle /\ LinkIdle /\ MetaIdle

SpecMerge == InitMerge /\ [][MergeNext]_vars

\* the call merged the single delta item k: v into a target that has x
OneItem == u_out # NoOut /\ Len(u_delta) = 1
MergeKey == u_delta[1].k
MergeValue == u_delta[1].v

\* x is a list in the target and the delta is +x or -x with a list
ListMerge(k) ==
    /\ OneItem /\ MergeKey = k /\ MergeValue.t = "list"
    /\ kx \in DOMAIN u_weights /\ u_weights[kx].t = "list"
BaseList == u_heap[u_weights[kx].ref]
DeltaList == u_heap[MergeValue.ref]
OutList == u_out.heap[u_out.weights[kx].ref]

Elems(seq) == {seq[i] : i \in 1 .. Len(seq)}

\* the number of times e occurs in seq
Occurs(seq, e) == Cardinality({i \in 1 .. Len(seq) : seq[i] = e})

\* small is big with some of its positions left out
IsSubSeqOf(small, big) ==
    \E keep \in SUBSET (1 .. Len(big)) :
        LET Kept(i) == i \in keep
            idx == SelectSeq([i \in 1 .. Len(big) |-> i], Kept)
        IN  small = [j \in 1 .. Len(idx) |-> big[idx[j]]]

\* C13: +x with a list appends the elements of the delta, in order, after
\* those of base[x]; -x with a list removes one occurrence of each element of
\* the delta from base[x] and keeps the order of the rest; -x fails when an
\* element of the delta is not, or is no longer, in base[x].
C13_ListMerge ==
    /\ ListMerge(Plus(kx)) =>
          (u_out.err = "ok" /\ u_out.weights[kx] = u_weights[kx]
             /\ OutList = BaseList \o DeltaList)
    /\ ListMerge(Minus(kx)) =>
          /\ (u_out.err = "ok") <=>
                (\A e \in Elems(DeltaList) : Occurs(DeltaList, e) <= Occurs(BaseList, e))
          /\ (u_out.err # "ok") => u_out.err = "ValueError"
          /\ (u_out.err = "ok") =>
                /\ \A e \in Elems(BaseList) \cup Elems(OutList) :
                      Occurs(OutList, e) = Occurs(BaseList, e) - Occurs(DeltaList, e)
                /\ IsSubSeqOf(OutList, BaseList)
    /\ (ListMerge(Plus(kx)) /\ BaseList = <<"3">> /\ DeltaList = <<"1", "2">>)
          => OutList = <<"3", "1", "2">>
    /\ (ListMerge(Minus(kx)) /\ BaseList = <<"1", "2">> /\ DeltaList = <<"1">>)
          => (u_out.err = "ok" /\ OutList = <<"2">>)

C13_Witness ==
    /\ ListMerge(Minus(kx)) /\ BaseList = <<"1", "2">> /\ DeltaList = <<"1">>
    /\ u_out.err = "ok" /\ OutList = <<"2">>

\* x is a weighted map in the target and the delta is +x or -x with a weighted map
MapMerge(k) ==
    /\ OneItem /\ MergeKey = k /\ MergeValue.t = "map"
    /\ kx \in DOMAIN u_weights /\ u_weights[kx].t = "map"
BaseMap == u_weights[kx].v
DeltaMap == MergeValue.v
OutMap == u_out.weights[kx].v
Candidates(items) == {items[i].k : i \in 1 .. Len(items)}

\* C14 as stated: every candidate of either map is in the result, with the sum
\* of its two weights.
C14_Original ==
    MapMerge(Plus(kx)) =>
        /\ u_out.err = "ok" /\ u_out.weights[kx].t = "map"
        /\ \A c \in Candidates(BaseMap) \cup Candidates(DeltaMap) :
              HasItem(OutMap, c) /\ WeightIn(OutMap, c) = WeightIn(BaseMap, c) + WeightIn(DeltaMap, c)

\* C14: +x with a weighted map on a weighted map gives the map of the
\* candidates of either map whose summed weight is positive, each with the sum
\* of its base weight and its delta weight (an absent candidate counting 0);
\* a candidate whose sum is zero is not in the result.
C14_AdditiveWeights ==
    MapMerge(Plus(kx)) =>
        /\ u_out.err = "ok" /\ u_out.weights[kx].t = "map"
        /\ Candidates(OutMap) =
              {c \in Candidates(BaseMap) \cup Candidates(DeltaMap) :
                  WeightIn(BaseMap, c) + WeightIn(DeltaMap, c) > 0}
        /\ \A c \in Candidates(OutMap) :
              WeightIn(OutMap, c) = WeightIn(BaseMap, c) + WeightIn(DeltaMap, c)
        /\ Len(OutMap) = Cardinality(Candidates(OutMap))

C14_Witness ==
    /\ MapMerge(Plus(kx)) /\ u_out.err = "ok"
    /\ BaseMap = <<W("a", 1), W("b", 0)>> /\ DeltaMap = <<W("a", 2), W("b", 0)>>
    /\ OutMap = <<W("a", 3)>>

\* C15 as stated: every candidate of base[x] is in the result, with its base
\* weight minus its delta weight.
C15_Original ==
    MapMerge(Minus(kx)) =>
        /\ u_out.err = "ok" /\ u_out.weights[kx].t = "map"
        /\ \A c \in Candidates(BaseMap) :
              HasItem(OutMap, c) /\ WeightIn(OutMap, c) = WeightIn(BaseMap, c) - WeightIn(DeltaMap, c)

\* C15: -x with a weighted map on a weighted map gives the map of the
\* candidates of base[x] whose base weight exceeds their delta weight, each
\* with the difference; a candidate whose difference is zero or negative is
\* not in the result, and a candidate of the delta alone never is.
C15_SubtractiveWeights ==
    MapMerge(Minus(kx)) =>
        /\ u_out.err = "ok" /\ u_out.weights[kx].t = "map"
        /\ Candidates(OutMap) =
              {c \in Candidates(BaseMap) : WeightIn(BaseMap, c) - WeightIn(DeltaMap, c) > 0}
        /\ \A c \in Candidates(OutMap) :
              WeightIn(OutMap, c) = WeightIn(BaseMap, c) - WeightIn(DeltaMap, c)
        /\ Len(OutMap) = Cardinality(Candidates(OutMap))

C15_Witness ==
    /\ MapMerge(Minus(kx)) /\ u_out.err = "ok"
    /\ BaseMap = <<W("a", 2), W("b", 1)>> /\ DeltaMap = <<W("a", 1), W("b", 2)>>
    /\ OutMap = <<W("a", 1)>>

\* the types the merge is defined for: a sequence and a weighted map
Mergeable(v) == v.t \in {"list", "map"}

\* C16: a +x or -x whose target base[x] exists and is neither a sequence nor a
\* weighted map, or is not of the type of the delta value, fails.
C16_TypeMismatchFails ==
    (OneItem /\ MergeKey \in {Plus(kx), Minus(kx)} /\ kx \in DOMAIN u_weights
       /\ (~Mergeable(u_weights[kx]) \/ u_weights[kx].t # MergeValue.t))
    => u_out.err # "ok"

\* the name of a key is named by a later item of the delta
NamedLater(i) == \E j \in (i + 1) .. Len(u_delta) : StripKey(u_delta[j].k) = StripKey(u_delta[i].k)
DeltaNames == {StripKey(u_delta[i].k) : i \in 1 .. Len(u_delta)}

\* the value of key k and the list object behind it are what they were
KeyUntouched(k) ==
    /\ k \in DOMAIN u_out.weights /\ u_out.weights[k] = u_weights[k]
    /\ u_weights[k].t = "list" => u_out.heap[u_weights[k].ref] = u_heap[u_weights[k].ref]

\* every key of the target that no key of the delta names is as it was
FrameKept == \A k \in DOMAIN u_weights \ DeltaNames : KeyUntouched(k)

StripOne(k) == [pre |-> Tail(k.pre), base |-> k.base]

\* C18: the name a prefixed key of the delta targets is the key with its one
\* leading '+' or '-' removed: the merge changes no other key of the target.
C18_SinglePrefixStripped ==
    (OneItem /\ MergeKey.pre # <<>> /\ u_out.err = "ok") =>
        /\ StripOne(MergeKey) \in DOMAIN u_out.weights
        /\ \A k \in DOMAIN u_weights \ {StripOne(MergeKey)} : KeyUntouched(k)

(***************************************************************************)
(* copy.deepcopy, roll_linked_options and roll_triggers.                   *)
(* A document is a mapping (top) and the heap of the list objects it       *)
(* holds.  A list of dicts (triggers, linked_options) is tagged "dicts";   *)
(* the `options` block of one is tagged "opts": the (category, delta)      *)
(* items in order.                                                         *)
(***************************************************************************)
Dicts(seq) == [t |-> "dicts", v |-> seq]
Opts(seq) == [t |-> "opts", v |-> seq]
Cat(c, delta) == [cat |-> c, delta |-> delta]

k_linked == K("linked_options")
k_triggers == K("triggers")
k_name == K("name")
k_game == K("game")
k_requires == K("requires")
k_version == K("version")
k_plando == K("plando")
k_percentage == K("percentage")
k_options == K("options")
k_option_category == K("option_category")
k_option_name == K("option_name")
k_option_result == K("option_result")
k_generator == K("_Generator_Version")

\* a value with every list reference moved by n
RECURSIVE ShiftVal(_, _)
ShiftVal(v, n) ==
    IF v.t = "list" THEN L(v.ref + n)
    ELSE IF v.t = "dict" THEN D([k \in DOMAIN v.v |-> ShiftVal(v.v[k], n)])
    ELSE IF v.t = "dicts"
         THEN Dicts([i \in 1 .. Len(v.v) |->
                       [k \in DOMAIN v.v[i] |-> ShiftVal(v.v[i][k], n)]])
    ELSE IF v.t = "opts"
         THEN Opts([i \in 1 .. Len(v.v) |->
                      Cat(v.v[i].cat,
                          [j \in 1 .. Len(v.v[i].delta) |->
                              KV(v.v[i].delta[j].k, ShiftVal(v.v[i].delta[j].v, n))])])
    ELSE v

\* a shallow copy: the list objects stay shared with the original
deepcopy_shallow(top, heap) == [top |-> top, heap |-> heap \o heap]

\* copy.deepcopy(weights): every list object gets a copy, appended to the heap
deepcopy(top, heap) ==
    [top |-> [k \in DOMAIN top |-> ShiftVal(top[k], Len(heap))], heap |-> heap \o heap]

\* Options.roll_percentage(percentage): random.random() < float(percentage) / 100
roll_percentage(percentage, u) == u * 100 < percentage.n * RandRes

\* for category_name, category_options in options.items(): update_weights(...)
RECURSIVE ApplyOptions(_, _, _, _)
ApplyOptions(top, heap, opts, i) ==
    IF i > Len(opts) THEN [err |-> "ok", top |-> top, heap |-> heap]
    ELSE IF opts[i].cat # "" /\ (K(opts[i].cat) \notin DOMAIN top
                                  \/ top[K(opts[i].cat)].t # "dict")
    THEN [err |-> "KeyError", top |-> top, heap |-> heap]
    ELSE With(update_weights(IF opts[i].cat = "" THEN top ELSE top[K(opts[i].cat)].v,
                             opts[i].delta, heap),
              LAMBDA r :
                 IF r.err # "ok" THEN [err |-> r.err, top |-> top, heap |-> r.heap]
                 ELSE With(IF opts[i].cat = "" THEN r.weights
                           ELSE [top EXCEPT ![K(opts[i].cat)] = D(r.weights)],
                           LAMBDA next : ApplyOptions(next, r.heap, opts, i + 1)))

\* st = [err, top, heap, p]
Fail(st, e) == [st EXCEPT !.err = e]

LinkedStep(st, option_set, s) ==
    IF k_name \notin DOMAIN option_set THEN Fail(st, "LinkedNoName")
    ELSE IF k_percentage \notin DOMAIN option_set \/ option_set[k_percentage].t # "num"
    THEN Fail(st, "LinkedInvalid")
    ELSE IF ~roll_percentage(option_set[k_percentage], Draw(s, st.p))
    THEN [st EXCEPT !.p = @ + 1]
    ELSE IF k_options \notin DOMAIN option_set
    THEN [st EXCEPT !.p = @ + 1, !.err = "LinkedInvalid"]
    ELSE With(ApplyOptions(st.top, st.heap, option_set[k_options].v, 1),
              LAMBDA r :
                 [err |-> IF r.err = "ok" THEN "ok" ELSE "LinkedInvalid",
                  top |-> r.top, heap |-> r.heap, p |-> st.p + 1])

\* the sets are applied last to first
RECURSIVE LinkedLoop_reversed(_, _, _, _)
LinkedLoop_reversed(st, sets, i, s) ==
    IF i > Len(sets) \/ st.err # "ok" THEN st
    ELSE With(LinkedStep(st, sets[Len(sets) + 1 - i], s),
              LAMBDA next : LinkedLoop_reversed(next, sets, i + 1, s))

RECURSIVE LinkedLoop(_, _, _, _)
LinkedLoop(st, sets, i, s) ==
    IF i > Len(sets) \/ st.err # "ok" THEN st
    ELSE With(LinkedStep(st, sets[i], s), LAMBDA next : LinkedLoop(next, sets, i + 1, s))

\* roll_linked_options: the sets are those of the copy
roll_linked_options(top, heap, s, p) ==
    With(deepcopy(top, heap),
         LAMBDA c : LinkedLoop([err |-> "ok", top |-> c.top, heap |-> c.heap, p |-> p],
                               c.top[k_linked].v, 1, s))

\* lines 575-578: the mapping the trigger watches, None when the category is missing
TriggerTarget(top, option_set) ==
    IF k_option_category \notin DOMAIN option_set
       \/ option_set[k_option_category].t = "none"
       \/ option_set[k_option_category] = S("")
    THEN D(top)
    ELSE IF option_set[k_option_category].t = "scalar"
            /\ K(option_set[k_option_category].v) \in DOMAIN top
            /\ top[K(option_set[k_option_category].v)].t = "dict"
    THEN top[K(option_set[k_option_category].v)]
    ELSE NoneV

\* the resolved value is compared and not stored
TriggerWrite_nowrite(top, option_set, key, value) == top

\* line 582: currently_targeted_weights[key] = result
TriggerWrite(top, option_set, key, value) ==
    IF TriggerTarget(top, option_set) = D(top) THEN Put(top, key, value)
    ELSE [top EXCEPT ![K(option_set[k_option_category].v)] = D(Put(@.v, key, value))]

\* the overlay applied on a match without the percentage roll
TriggerFire_nopct(st, option_set, key, matches, s) ==
    IF ~matches THEN [st EXCEPT !.valid_keys = @ \cup {key}]
    ELSE IF k_options \notin DOMAIN option_set THEN Fail(st, "TriggerInvalid")
    ELSE With(ApplyOptions(st.top, st.heap, option_set[k_options].v, 1),
              LAMBDA r :
                 [err |-> IF r.err = "ok" THEN "ok" ELSE "TriggerInvalid",
                  top |-> r.top, heap |-> r.heap, p |-> st.p,
                  valid_keys |-> IF r.err = "ok" THEN st.valid_keys \cup {key}
                                 ELSE st.valid_keys,
                  fired |-> Append(st.fired, option_set)])

\* the percentage is rolled before the values are compared
TriggerFire_eagerpct(st, option_set, key, matches, s) ==
    With(get_choice(k_percentage, option_set, st.heap, N(100), s, st.p),
              LAMBDA pct :
    IF pct.err # "ok" \/ pct.val.t # "num"
    THEN [st EXCEPT !.err = "TriggerInvalid", !.p = pct.p]
    ELSE IF ~matches \/ ~roll_percentage(pct.val, Draw(s, pct.p))
    THEN [st EXCEPT !.p = pct.p + 1, !.valid_keys = @ \cup {key}]
    ELSE IF k_options \notin DOMAIN option_set
    THEN [st EXCEPT !.p = pct.p + 1, !.err = "TriggerInvalid"]
    ELSE With(ApplyOptions(st.top, st.heap, option_set[k_options].v, 1),
              LAMBDA r :
                 [err |-> IF r.err = "ok" THEN "ok" ELSE "TriggerInvalid",
                  top |-> r.top, heap |-> r.heap, p |-> pct.p + 1,
                  valid_keys |-> IF r.err = "ok" THEN st.valid_keys \cup {key}
                                 ELSE st.valid_keys,
                  fired |-> Append(st.fired, option_set)]))

\* lines 583-589, with the watched key written back and the stream at p
TriggerFire(st, option_set, key, matches, s) ==
    IF ~matches THEN [st EXCEPT !.valid_keys = @ \cup {key}]
    ELSE With(get_choice(k_percentage, option_set, st.heap, N(100), s, st.p),
              LAMBDA pct :
    IF pct.err # "ok" \/ pct.val.t # "num"
    THEN [st EXCEPT !.err = "TriggerInvalid", !.p = pct.p]
    ELSE IF ~roll_percentage(pct.val, Draw(s, pct.p))
    THEN [st EXCEPT !.p = pct.p + 1, !.valid_keys = @ \cup {key}]
    ELSE IF k_options \notin DOMAIN option_set
    THEN [st EXCEPT !.p = pct.p + 1, !.err = "TriggerInvalid"]
    ELSE With(ApplyOptions(st.top, st.heap, option_set[k_options].v, 1),
              LAMBDA r :
                 [err |-> IF r.err = "ok" THEN "ok" ELSE "TriggerInvalid",
                  top |-> r.top, heap |-> r.heap, p |-> pct.p + 1,
                  valid_keys |-> IF r.err = "ok" THEN st.valid_keys \cup {key}
                                 ELSE st.valid_keys,
                  fired |-> Append(st.fired, option_set)]))

\* lines 581-582, with key and trigger_result chosen and the stream at p
TriggerWatch(st, option_set, key, trigger_result, p, s) ==
    With(get_choice(key, TriggerTarget(st.top, option_set).v, st.heap, NoneV, s, p),
         LAMBDA result :
    IF result.err # "ok" THEN [st EXCEPT !.err = "TriggerInvalid", !.p = result.p]
    ELSE With([st EXCEPT !.top = TriggerWrite(st.top, option_set, key, result.val),
                         !.p = result.p],
              LAMBDA st1 : TriggerFire(st1, option_set, key, result.val = trigger_result, s)))

\* the body of the loop of roll_triggers; st = [err, top, heap, p, valid_keys, fired]
TriggerStep(st, option_set, s) ==
    IF TriggerTarget(st.top, option_set) = NoneV THEN Fail(st, "TriggerInvalid")
    ELSE With(get_choice(k_option_name, option_set, st.heap, NoneV, s, st.p),
              LAMBDA keyr :
    IF keyr.err # "ok" THEN [st EXCEPT !.err = "TriggerInvalid", !.p = keyr.p]
    ELSE With(get_choice(k_option_result, option_set, st.heap, NoneV, s, keyr.p),
              LAMBDA resr :
    IF resr.err # "ok" THEN [st EXCEPT !.err = "TriggerInvalid", !.p = resr.p]
    ELSE IF keyr.val.t # "scalar" THEN Fail(st, "Unmodelled")
    ELSE TriggerWatch(st, option_set, K(keyr.val.v), resr.val, resr.p, s)))

\* the triggers are processed last to first
RECURSIVE TriggerLoop_reversed(_, _, _, _)
TriggerLoop_reversed(st, triggers, i, s) ==
    IF i > Len(triggers) \/ st.err # "ok" THEN st
    ELSE With(TriggerStep(st, triggers[Len(triggers) + 1 - i], s),
              LAMBDA next :
                 TriggerLoop_reversed([number |-> IF next.err # "ok" THEN i ELSE 0] @@ next,
                                      triggers, i + 1, s))

\* lines 573-592: for i, option_set in enumerate(triggers); a failure is
\* reported with the number i + 1 of the trigger, which is its place in the list
RECURSIVE TriggerLoop(_, _, _, _)
TriggerLoop(st, triggers, i, s) ==
    IF i > Len(triggers) \/ st.err # "ok" THEN st
    ELSE With(TriggerStep(st, triggers[i], s),
              LAMBDA next :
                 TriggerLoop([number |-> IF next.err # "ok" THEN i ELSE 0] @@ next,
                             triggers, i + 1, s))

\* roll_triggers: the copy is rolled against the caller's trigger objects
roll_triggers(top, heap, triggers, valid_keys, s, p) ==
    With(deepcopy(top, heap),
         LAMBDA c :
            TriggerLoop([err |-> "ok", top |-> Put(c.top, k_generator, S("version")),
                         heap |-> c.heap, p |-> p, valid_keys |-> valid_keys,
                         fired |-> <<>>, number |-> 0],
                        triggers, 1, s))

(***************************************************************************)
(* roll_settings.  The world registry, the option classes and the version  *)
(* of the generator are collaborators outside generate.py: they are        *)
(* modelled by the small tables below.                                     *)
(***************************************************************************)
EngineVersion == 1                       \* Utils.version_tuple
GameName == "Paper Mario: The Thousand-Year Door"
world_types == {GameName}                \* AutoWorldRegister.world_types
EnabledPlando == {"bosses"}              \* plando_options
Plando(set) == [t |-> "plando", v |-> set]

\* an option class: its key, its default, supports_weighting, what from_any accepts
Opt(key, default, weighting, valid) ==
    [key |-> key, default |-> default, supports_weighting |-> weighting, valid |-> valid]

\* Options.CommonOptions.type_hints, in declaration order
CommonOptions == <<Opt("accessibility", S("full"), TRUE, {"full", "minimal"})>>
\* the keys Options.PerGameCommonOptions.type_hints adds to them
PerGameOnlyKeys == {"local_items", "start_inventory"}
\* world_type.options_dataclass.type_hints of the registered world, in order
GameOptions ==
    <<Opt("goal", S("X"), TRUE, {"X", "Y", "Z"}),
      Opt("yoshi_color", S("green"), FALSE, {"green", "red"})>>

\* option.from_any(value): the typed value, or an exception
from_any(option, value) ==
    IF value.t = "scalar" /\ value.v \in option.valid
    THEN [err |-> "ok", val |-> value]
    ELSE [err |-> "OptionError", val |-> NoneV]

\* the state a roll threads through its steps
RollState(top, heap, p) ==
    [err |-> "ok", top |-> top, heap |-> heap, p |-> p, valid_keys |-> {k_triggers},
     fired |-> <<>>, game |-> NoneV, name |-> NoneV, opts |-> <<>>]

\* lines 624-625
StepLinked(st, s) ==
    IF k_linked \notin DOMAIN st.top THEN st
    ELSE With(roll_linked_options(st.top, st.heap, s, st.p),
              LAMBDA r : [st EXCEPT !.err = r.err, !.top = r.top, !.heap = r.heap, !.p = r.p])

\* lines 627-629 (root triggers)
StepTriggers(st, s) ==
    IF st.err # "ok" \/ k_triggers \notin DOMAIN st.top THEN st
    ELSE With(roll_triggers(st.top, st.heap, st.top[k_triggers].v, st.valid_keys, s, st.p),
              LAMBDA r : [st EXCEPT !.err = r.err, !.top = r.top, !.heap = r.heap, !.p = r.p,
                                    !.valid_keys = r.valid_keys, !.fired = r.fired])

\* the requires block is read and nothing is compared
StepRequires_noversion(st) == st

\* lines 631-641
StepRequires(st) ==
    IF st.err # "ok" \/ k_requires \notin DOMAIN st.top THEN st
    ELSE LET requirements == st.top[k_requires] IN
         IF requirements.t # "dict" THEN
              (IF requirements.t = "none" THEN st ELSE Fail(st, "AttributeError"))
         ELSE IF DOMAIN requirements.v = {} THEN st
         ELSE IF k_version \in DOMAIN requirements.v
                 /\ requirements.v[k_version].n > EngineVersion
         THEN Fail(st, "VersionIncompatible")
         ELSE IF k_plando \in DOMAIN requirements.v
                 /\ ~(requirements.v[k_plando].v \subseteq EnabledPlando)
         THEN Fail(st, "PlandoRequired")
         ELSE st

\* lines 644-646
StepCommonKeys(st) ==
    IF st.err # "ok" THEN st
    ELSE IF \E k \in PerGameOnlyKeys : K(k) \in DOMAIN st.top
    THEN Fail(st, "OutsideGameSection")
    ELSE st

\* lines 648-667
StepGame(st, s) ==
    IF st.err # "ok" THEN st
    ELSE With(get_choice(k_game, st.top, st.heap, NoneV, s, st.p),
              LAMBDA g :
         IF g.err # "ok" THEN [st EXCEPT !.err = g.err, !.p = g.p]
         ELSE IF g.val.t = "none" THEN [st EXCEPT !.err = "GameNotSpecified", !.p = g.p]
         ELSE IF g.val.t # "scalar" THEN [st EXCEPT !.err = "InvalidGame", !.p = g.p]
         ELSE IF g.val.v \notin world_types THEN [st EXCEPT !.err = "UnknownGame", !.p = g.p]
         ELSE IF K(g.val.v) \notin DOMAIN st.top
         THEN [st EXCEPT !.err = "NoGameOptions", !.p = g.p, !.game = g.val]
         ELSE IF st.top[K(g.val.v)].t # "dict"
         THEN [st EXCEPT !.err = "TypeError", !.p = g.p, !.game = g.val]
         ELSE [st EXCEPT !.p = g.p, !.game = g.val])

game_weights(st) == st.top[K(st.game.v)].v

\* the scan over the keys of the game section only
StepMergeTags_gameonly(st) ==
    IF st.err # "ok" THEN st
    ELSE IF \E weight \in DOMAIN game_weights(st) : IsPlus(weight) \/ IsMinus(weight)
    THEN Fail(st, "MergeTag")
    ELSE st

\* lines 669-673
StepMergeTags(st) ==
    IF st.err # "ok" THEN st
    ELSE IF \E weight \in DOMAIN game_weights(st) \cup DOMAIN st.top :
               IsPlus(weight) \/ IsMinus(weight)
    THEN Fail(st, "MergeTag")
    ELSE st

\* lines 675-677 (the triggers of the game section)
StepGameTriggers(st, s) ==
    IF st.err # "ok" \/ k_triggers \notin DOMAIN game_weights(st) THEN st
    ELSE With(roll_triggers(st.top, st.heap, game_weights(st)[k_triggers].v,
                            st.valid_keys, s, st.p),
              LAMBDA r : [st EXCEPT !.err = r.err, !.top = r.top, !.heap = r.heap, !.p = r.p,
                                    !.valid_keys = r.valid_keys, !.fired = st.fired \o r.fired])

\* line 679
StepName(st, s) ==
    IF st.err # "ok" THEN st
    ELSE With(get_choice(k_name, st.top, st.heap, NoneV, s, st.p),
              LAMBDA r : [st EXCEPT !.err = r.err, !.name = r.val, !.p = r.p])

\* one iteration of the loop of lines 680-681
CommonOption(st, option, s) ==
    With(get_choice(K(option.key), st.top, st.heap, option.default, s, st.p),
         LAMBDA c :
            IF c.err # "ok" THEN [st EXCEPT !.err = c.err, !.p = c.p]
            ELSE IF from_any(option, c.val).err # "ok"
            THEN [st EXCEPT !.err = "OptionError", !.p = c.p]
            ELSE [st EXCEPT !.p = c.p, !.opts = Put(@, option.key, from_any(option, c.val).val)])

\* lines 680-681
RECURSIVE StepCommonOptions(_, _, _)
StepCommonOptions(st, s, i) ==
    IF st.err # "ok" \/ i > Len(CommonOptions) THEN st
    ELSE With(CommonOption(st, CommonOptions[i], s),
              LAMBDA next : StepCommonOptions(next, s, i + 1))

\* a key that holds None is resolved from the declared default
handle_option_nonedefault(st, option, s) ==
    IF K(option.key) \in DOMAIN game_weights(st)
       /\ game_weights(st)[K(option.key)] # NoneV THEN
        IF ~option.supports_weighting
        THEN With(from_any(option, game_weights(st)[K(option.key)]),
                  LAMBDA v : IF v.err # "ok" THEN Fail(st, "OptionError")
                             ELSE [st EXCEPT !.opts = Put(@, option.key, v.val)])
        ELSE With(get_choice(K(option.key), game_weights(st), st.heap, NoneV, s, st.p),
                  LAMBDA c :
                     IF c.err # "ok" \/ from_any(option, c.val).err # "ok"
                     THEN [st EXCEPT !.err = "OptionError", !.p = c.p]
                     ELSE [st EXCEPT !.p = c.p,
                                     !.opts = Put(@, option.key, from_any(option, c.val).val)])
    ELSE With(from_any(option, option.default),
              LAMBDA v : IF v.err # "ok" THEN Fail(st, "OptionError")
                         ELSE [st EXCEPT !.opts = Put(@, option.key, v.val)])

\* handle_option, lines 596-610
handle_option(st, option, s) ==
    IF K(option.key) \in DOMAIN game_weights(st) THEN
        IF ~option.supports_weighting
        THEN With(from_any(option, game_weights(st)[K(option.key)]),
                  LAMBDA v : IF v.err # "ok" THEN Fail(st, "OptionError")
                             ELSE [st EXCEPT !.opts = Put(@, option.key, v.val)])
        ELSE With(get_choice(K(option.key), game_weights(st), st.heap, NoneV, s, st.p),
                  LAMBDA c :
                     IF c.err # "ok" \/ from_any(option, c.val).err # "ok"
                     THEN [st EXCEPT !.err = "OptionError", !.p = c.p]
                     ELSE [st EXCEPT !.p = c.p,
                                     !.opts = Put(@, option.key, from_any(option, c.val).val)])
    ELSE With(from_any(option, option.default),
              LAMBDA v : IF v.err # "ok" THEN Fail(st, "OptionError")
                         ELSE [st EXCEPT !.opts = Put(@, option.key, v.val)])

\* lines 683-685
RECURSIVE StepGameOptions(_, _, _)
StepGameOptions(st, s, i) ==
    IF st.err # "ok" \/ i > Len(GameOptions) THEN st
    ELSE With(handle_option(st, GameOptions[i], s),
              LAMBDA r :
                 StepGameOptions(
                    IF r.err = "ok"
                    THEN [r EXCEPT !.valid_keys = @ \cup {K(GameOptions[i].key)}] ELSE r,
                    s, i + 1))

\* lines 624-641: linked options, root triggers, requirements
RollHead(top, heap, s, p) ==
    With(StepLinked(RollState(top, heap, p), s),
         LAMBDA a : With(StepTriggers(a, s), LAMBDA b : StepRequires(b)))

\* lines 643-677: the game, the tag scan, the triggers of the game section
RollGame(st, s) ==
    With(StepCommonKeys(st),
         LAMBDA a : With(StepGame(a, s),
         LAMBDA b : With(StepMergeTags(b),
         LAMBDA c : StepGameTriggers(c, s))))

\* lines 679-685: the name and the options
RollOptions(st, s) ==
    With(StepName(st, s),
         LAMBDA a : With(StepCommonOptions(a, s, 1),
         LAMBDA b : StepGameOptions(b, s, 1)))

\* roll_settings(weights) on the stream s from position p.  The result is the
\* namespace ret (game, name, the typed options) or the error raised, with what
\* the call left behind: the stream position, the caller's list objects (the
\* copies die with the call) and the requires block that was in effect.
roll_settings(top, heap, s, p) ==
    With(RollHead(top, heap, s, p),
         LAMBDA a : With(RollGame(a, s),
         LAMBDA b : With(RollOptions(b, s),
         LAMBDA st :
            [err |-> st.err, game |-> st.game, name |-> st.name, opts |-> st.opts,
             p |-> st.p, heap |-> SubSeq(st.heap, 1, Len(heap)),
             requires |-> IF k_requires \in DOMAIN st.top THEN st.top[k_requires]
                          ELSE NoneV])))

(***************************************************************************)
(* The outcomes of a call over every stream: the call is run on a known    *)
(* prefix of the stream, and while it reads past the prefix the prefix is  *)
(* extended by each value the next draw can take.                          *)
(***************************************************************************)
RECURSIVE RollOutcomes(_, _, _)
RollOutcomes(top, heap, prefix) ==
    With(roll_settings(top, heap, prefix, 0),
         LAMBDA r :
            IF r.p <= Len(prefix) THEN {r}
            ELSE UNION {RollOutcomes(top, heap, next) :
                           next \in {Append(prefix, u) : u \in Draws}})

RECURSIVE TriggerOutcomes(_, _, _)
TriggerOutcomes(top, heap, prefix) ==
    With(roll_triggers(top, heap, top[k_triggers].v, {k_triggers}, prefix, 0),
         LAMBDA r :
            IF r.p <= Len(prefix) THEN {r}
            ELSE UNION {TriggerOutcomes(top, heap, next) :
                           next \in {Append(prefix, u) : u \in Draws}})

(***************************************************************************)
(* SpecRoll: successive roll_settings calls on one shared document, as     *)
(* main makes them for the participants the document serves; and a direct  *)
(* roll_triggers call on it.  The documents are built from a library of    *)
(* linked option sets and triggers.                                        *)
(***************************************************************************)
MaxRolls == 2       \* roll_settings calls on the shared document

\* the list objects of the library
LibHeap == << <<"a">>, <<"b">>, <<"a">>, <<"c">>, <<"X", "Y">> >>

k_goal == K("goal")
k_flagA == K("flagA")
k_foo == K("foo")

Trigger(name, result, opts) ==
    (k_option_name :> S(name)) @@ (k_option_result :> S(result)) @@ (k_options :> Opts(opts))
WithPct(trigger, pct) == trigger @@ (k_percentage :> N(pct))

\* {option_name: goal, option_result: X, percentage: pct, options: {"": {"+flagA": 1}}}
T_flag(pct) == WithPct(Trigger("goal", "X", <<Cat("", <<KV(Plus(k_flagA), S("1"))>>)>>), pct)
\* the same trigger with no percentage
T_flagDefault == Trigger("goal", "X", <<Cat("", <<KV(Plus(k_flagA), S("1"))>>)>>)
\* options: {"": {"x": [a]}}, then {"": {"+x": [b]}} and {"": {"-x": [a]}}
T_setx == Trigger("goal", "X", <<Cat("", <<KV(kx, L(1))>>)>>)
T_addx == Trigger("goal", "X", <<Cat("", <<KV(Plus(kx), L(2))>>)>>)
T_remx == Trigger("goal", "X", <<Cat("", <<KV(Minus(kx), L(3))>>)>>)
\* a trigger that names a category the document does not have
T_badcat == Trigger("goal", "X", <<Cat("nowhere", <<KV(kx, S("a"))>>)>>)
\* a trigger whose overlay replaces the requires block
T_requires == Trigger("goal", "X",
                      <<Cat("", <<KV(k_requires, D((k_version :> N(EngineVersion))))>>)>>)
\* a trigger of the game section, watching the game's goal
\* a trigger whose overlay sets the option it watches to a weighted map again
T_regoal == Trigger("goal", "X", <<Cat("", <<KV(k_goal, M(<<W("X", 1), W("Y", 1)>>))>>)>>)
\* a trigger that watches goal in the game section
T_section(pct) == (k_option_category :> S(GameName)) @@ T_flag(pct)

\* a trigger of the game section without option_category: it watches goal and
\* sets yoshi_color in the game section
T_gamenocat == Trigger("goal", "X", <<Cat(GameName, <<KV(K("yoshi_color"), S("red"))>>)>>)
\* triggers that form a chain: the overlay of the first sets the option flagB
\* that the second watches
k_flagB == K("flagB")
T_on == Trigger("goal", "X", <<Cat("", <<KV(k_flagB, S("on"))>>)>>)
T_off == Trigger("goal", "X", <<Cat("", <<KV(k_flagB, S("off"))>>)>>)
T_ifon == Trigger("flagB", "on", <<Cat("", <<KV(ky, S("k"))>>)>>)
T_game == (k_option_category :> S(GameName))
            @@ Trigger("goal", "Y", <<Cat(GameName, <<KV(K("yoshi_color"), S("red"))>>)>>)

TriggerLists ==
    {<<T_flag(100)>>, <<T_flag(0)>>, <<T_flagDefault>>, <<T_flag(50)>>,
     <<T_setx, T_addx>>, <<T_setx, T_remx, T_remx>>, <<T_badcat>>, <<T_requires>>,
     <<T_regoal>>}

LinkedSet(name, pct, opts) ==
    (k_name :> S(name)) @@ (k_percentage :> N(pct)) @@ (k_options :> Opts(opts))
LS_x == LinkedSet("lx", 50, <<Cat("", <<KV(kx, L(4))>>)>>)
LS_noname == (k_percentage :> N(100)) @@ (k_options :> Opts(<<>>))

LinkedLists == {<<LS_x>>, <<LS_noname>>}

\* f with the key k bound to each of the values vs, or left as it is
Vary(fs, k, vs) == fs \cup {Put(f, k, v) : f \in fs, v \in vs}
\* f with the key k bound to each of the values vs
Each(fs, k, vs) == {Put(f, k, v) : f \in fs, v \in vs}

WeightedGoal == M(<<W("X", 1), W("Y", 1)>>)

GameSections ==
    {<<>>,
     (k_goal :> WeightedGoal),
     (k_goal :> S("Y")) @@ (k_triggers :> Dicts(<<T_game>>)),
     (k_goal :> S("X")) @@ (k_triggers :> Dicts(<<T_gamenocat>>)),
     (k_goal :> S("Q"))}

\* a document of one game with the game section g
Doc(g) == (k_game :> S(GameName)) @@ (K(GameName) :> D(g))

\* documents with root triggers, with and without linked options and flagA
TriggerDocs ==
    Vary(Vary(Each(Each({Doc(<<>>)},
        k_goal, {S("X"), WeightedGoal, L(5)}),
        k_triggers, {Dicts(l) : l \in TriggerLists}),
        k_flagA, {S("0")}),
        k_linked, {Dicts(<<LS_x>>)})

\* documents with a merge-tag or remove-tag key at the top level
TagDocs ==
    Vary(Vary(
        {Put(Put(Doc(g), k_goal, S("X")), k, v) :
            g \in {<<>>, (k_goal :> S("Y")) @@ (k_triggers :> Dicts(<<T_game>>))},
            k \in {Plus(k_foo), Minus(k_foo), Plus(Minus(kx))},
            v \in {S("1"), NoneV}},
        k_linked, {Dicts(l) : l \in LinkedLists}),
        k_triggers, {Dicts(<<T_flag(100)>>), Dicts(<<T_setx, T_addx>>), Dicts(<<T_badcat>>)})

\* documents with a requires block
RequiresDocs ==
    Vary(Vary(
        {Put(Put(Doc(g), k_goal, S("X")), k_requires, r) :
            g \in {<<>>, (k_goal :> WeightedGoal)},
            r \in {D((k_version :> N(v))) : v \in {EngineVersion, EngineVersion + 1}}
                    \cup {D((k_plando :> Plando({"items"}))), D(<<>>)}},
        k_linked, {Dicts(l) : l \in LinkedLists}),
        k_triggers, {Dicts(<<T_requires>>), Dicts(<<T_badcat>>), Dicts(<<T_flag(50)>>)})

\* documents that differ in the game they name and in its section
GameDocs ==
    {Doc(g) : g \in GameSections}
        \cup {(k_game :> S("Chess")), (k_game :> S(GameName)), <<>>,
              Put(Doc(<<>>), K("local_items"), S("1")),
              Put(Doc(<<>>), k_name, S("Bob")),
              Put(Doc(<<>>), K("accessibility"), S("none"))}

\* documents whose root triggers watch goal in the game section
SectionDocs ==
    {Put(Doc(g), k_triggers, Dicts(<<T_section(pct)>>)) :
        g \in {<<>>, (k_goal :> S("X")), (k_goal :> WeightedGoal), (k_goal :> L(5))},
        pct \in {0, 100}}

\* documents whose triggers form a chain, with and without flagB: on
ChainDocs ==
    {Put(Put(Doc(<<>>), k_goal, g), k_triggers, Dicts(l)) :
        g \in {S("X"), WeightedGoal},
        l \in {<<T_on, T_ifon>>, <<T_ifon, T_on>>, <<T_on, T_badcat>>, <<T_badcat, T_on>>}}
    \cup {Put(Put(Put(Doc(<<>>), k_goal, g), k_flagB, S("on")), k_triggers,
              Dicts(<<T_off, T_ifon>>)) : g \in {S("X"), WeightedGoal}}

RollDocs ==
    TriggerDocs \cup TagDocs \cup RequiresDocs \cup GameDocs \cup SectionDocs \cup ChainDocs

RollInit ==
    /\ r_top \in RollDocs
    /\ r_heap = LibHeap
    /\ r_calls = 0
    /\ r_out = NoOut
    /\ t_out = NoOut

\* roll_settings(yaml) for the next participant the document serves
RollSettingsCall ==
    /\ r_calls < MaxRolls
    /\ \E o \in RollOutcomes(r_top, r_heap, <<>>) :
          /\ r_out' = o
          /\ r_heap' = o.heap
    /\ r_calls' = r_calls + 1
    /\ UNCHANGED <<r_top, t_out, choiceVars, nameVars, mainVars, mergeVars, linkVars, metaVars>>

\* roll_triggers(weights, weights["triggers"], valid_keys) on the document
RollTriggersCall ==
    /\ r_calls = 0
    /\ t_out = NoOut
    /\ k_triggers \in DOMAIN r_top
    /\ \E o \in TriggerOutcomes(r_top, r_heap, <<>>) :
          /\ t_out' = o
          /\ r_heap' = SubSeq(o.heap, 1, Len(r_heap))
    /\ UNCHANGED <<r_top, r_calls, r_out, choiceVars, nameVars, mainVars, mergeVars, linkVars, metaVars>>

RollNext == RollSettingsCall \/ RollTriggersCall

InitRoll == RollInit /\ ChoiceIdle /\ NameIdle /\ MainIdle /\ MergeIdle /\ LinkIdle /\ MetaIdle

SpecRoll == InitRoll /\ [][RollNext]_vars

\* the model covers every trigger and linked option set of the library
RollModelled ==
    /\ r_out # NoOut => r_out.err # "Unmodelled"
    /\ t_out # NoOut => t_out.err # "Unmodelled"

\* C1: roll_settings leaves the document it is given as it was: after any
\* number of roll_settings calls on the shared document its list objects, those
\* nested in the options blocks of its triggers and linked options included,
\* are what they were before the first call.
C1_DocumentUnchanged == (t_out = NoOut) => (r_heap = LibHeap)

\* a key with a leading '+' or '-' at the top level of the document
TopTag(top) == \E k \in DOMAIN top : IsPlus(k) \/ IsMinus(k)

\* C5: roll_settings on a document with a '+' or '-' key at its top level
\* fails, whatever the value of the key and whatever linked options and
\* triggers the document declares.
C5_TagAlwaysFails == (r_out # NoOut /\ TopTag(r_top)) => r_out.err # "ok"

C5_Witness ==
    /\ r_out # NoOut /\ TopTag(r_top) /\ r_out.err = "MergeTag"
    /\ k_linked \in DOMAIN r_top /\ k_triggers \in DOMAIN r_top
    /\ r_out.p > 0

\* a requires block whose version is above the version of the generator
NeedsNewer(requires) ==
    /\ requires.t = "dict"
    /\ k_version \in DOMAIN requires.v
    /\ requires.v[k_version].n > EngineVersion

DocNeedsNewer == k_requires \in DOMAIN r_top /\ NeedsNewer(r_top[k_requires])

\* C6 as stated: a document whose requires.version is above the version of
\* the generator fails with the version error, without any draw made first and
\* with no other error in its place.
C6_Original ==
    (r_out # NoOut /\ DocNeedsNewer) => (r_out.err = "VersionIncompatible" /\ r_out.p = 0)

\* C6: the version is compared after the linked options and the root triggers
\* have run.  A document with neither whose requires.version is above the
\* version of the generator fails with the version error before any draw; with
\* them, the roll fails with the version error exactly when the requires block
\* in effect after them still names a newer version, and never succeeds with
\* such a block.
C6_VersionAfterLayers ==
    r_out # NoOut =>
        /\ (DocNeedsNewer /\ k_linked \notin DOMAIN r_top /\ k_triggers \notin DOMAIN r_top)
              => (r_out.err = "VersionIncompatible" /\ r_out.p = 0)
        /\ r_out.err = "ok" => ~NeedsNewer(r_out.requires)
        /\ r_out.err = "VersionIncompatible" => NeedsNewer(r_out.requires)
        /\ (DocNeedsNewer /\ r_out.err # "VersionIncompatible")
              => (k_linked \in DOMAIN r_top \/ k_triggers \in DOMAIN r_top)

C6_Witness ==
    /\ r_out # NoOut /\ DocNeedsNewer
    /\ k_linked \notin DOMAIN r_top /\ k_triggers \notin DOMAIN r_top
    /\ r_out.err = "VersionIncompatible" /\ r_out.p = 0

\* roll_triggers ran on a document whose only trigger is T_flag(pct), and goal
\* resolved to X
FlagTriggerRan(pct) ==
    /\ t_out # NoOut
    /\ r_top[k_triggers] = Dicts(<<T_flag(pct)>>)
    /\ k_goal \in DOMAIN t_out.top /\ t_out.top[k_goal] = S("X")

FlagUnchanged ==
    IF k_flagA \in DOMAIN r_top
    THEN k_flagA \in DOMAIN t_out.top /\ t_out.top[k_flagA] = r_top[k_flagA]
    ELSE k_flagA \notin DOMAIN t_out.top

\* C7 as stated: with percentage 100 the returned document has flagA applied,
\* with percentage 0 the returned document has flagA as it was.
C7_Original ==
    /\ FlagTriggerRan(100) =>
          (t_out.err = "ok" /\ k_flagA \in DOMAIN t_out.top /\ t_out.top[k_flagA] = S("1"))
    /\ FlagTriggerRan(0) => (t_out.err = "ok" /\ FlagUnchanged)

\* C7: on a document that has no flagA key the trigger with percentage 100
\* always returns a document with flagA = 1; on a document that has a scalar
\* flagA the merge raises and roll_triggers fails; with percentage 0 the
\* returned document has flagA as it was.
C7_FlagTrigger ==
    /\ (FlagTriggerRan(100) /\ k_flagA \notin DOMAIN r_top) =>
          (t_out.err = "ok" /\ k_flagA \in DOMAIN t_out.top /\ t_out.top[k_flagA] = S("1"))
    /\ (FlagTriggerRan(100) /\ k_flagA \in DOMAIN r_top) =>
          (t_out.err = "TriggerInvalid" /\ FlagUnchanged)
    /\ FlagTriggerRan(0) => (t_out.err = "ok" /\ FlagUnchanged)

C7_Witness ==
    /\ FlagTriggerRan(100) /\ k_flagA \notin DOMAIN r_top
    /\ r_top[k_goal] = WeightedGoal
    /\ t_out.err = "ok" /\ t_out.top[k_flagA] = S("1")

\* the first trigger of the list roll_triggers was given; in the library every
\* trigger of one list watches goal in the same mapping
WatchTrigger == r_top[k_triggers].v[1]
TriggersRan == t_out # NoOut /\ t_out.err = "ok"
\* the mapping the triggers watch, in the document and in the returned copy
DeclaredTarget == TriggerTarget(r_top, WatchTrigger).v
ReturnedTarget == TriggerTarget(t_out.top, WatchTrigger).v

\* the values get_choice can resolve a declared value to
Concrete(target, heap) ==
    IF k_goal \notin DOMAIN target THEN {NoneV}
    ELSE IF target[k_goal].t = "list"
    THEN {S(heap[target[k_goal].ref][i]) : i \in DOMAIN heap[target[k_goal].ref]}
    ELSE IF target[k_goal].t = "map"
    THEN {S(target[k_goal].v[i].k) : i \in {j \in DOMAIN target[k_goal].v :
                                                 target[k_goal].v[j].w > 0}}
    ELSE {target[k_goal]}

\* a trigger that watches goal fired
GoalFired ==
    \E i \in DOMAIN t_out.fired : t_out.fired[i][k_option_name] = S("goal")

\* the watched option holds one resolved value of what the document declared,
\* and the value X whenever a trigger fired on it
WrittenBack ==
    /\ k_goal \in DOMAIN ReturnedTarget
    /\ ReturnedTarget[k_goal] \in Concrete(DeclaredTarget, r_heap)
    /\ GoalFired => ReturnedTarget[k_goal] = S("X")
    /\ (ReturnedTarget[k_goal] = S("X")
          /\ (k_percentage \notin DOMAIN WatchTrigger
               \/ WatchTrigger[k_percentage] = N(100))) => GoalFired

\* some trigger of the list names the watched option in its own overlay
OverlayNamesWatched ==
    \E i \in DOMAIN r_top[k_triggers].v :
       \E c \in DOMAIN r_top[k_triggers].v[i][k_options].v :
          \E j \in DOMAIN r_top[k_triggers].v[i][k_options].v[c].delta :
             StripKey(r_top[k_triggers].v[i][k_options].v[c].delta[j].k) = k_goal

FlagTriggers == {T_flag(0), T_flag(50), T_flag(100), T_flagDefault}
OneFlagTrigger ==
    /\ t_out # NoOut
    /\ k_triggers \in DOMAIN r_top
    /\ Len(r_top[k_triggers].v) = 1
    /\ r_top[k_triggers].v[1] \in FlagTriggers
\* the draws that resolve the watched option: none for a scalar, one for a
\* weighted map or a list
ResolveDraws == IF r_top[k_goal].t \in {"map", "list"} THEN 1 ELSE 0
WatchedValue == t_out.top[k_goal]

\* C29: the percentage of a trigger is rolled only when the resolved value of
\* the watched option equals option_result; a trigger that does not match
\* consumes no draw for its percentage.
C29_PercentageOnMatch ==
    OneFlagTrigger =>
        t_out.p = ResolveDraws + (IF WatchedValue = S("X") THEN 1 ELSE 0)

\* a weighted goal resolved to Y: one draw, none for the percentage
C29_Witness ==
    /\ OneFlagTrigger
    /\ r_top[k_goal] = WeightedGoal
    /\ WatchedValue = S("Y")
    /\ t_out.p = 1

\* a root trigger watches goal in a game section that does not have it
WatchesAbsent ==
    /\ k_triggers \in DOMAIN r_top
    /\ r_top[k_triggers].v \in {<<T_section(0)>>, <<T_section(100)>>}
    /\ k_goal \notin DOMAIN r_top[K(GameName)].v

\* C30: a trigger that watches an option absent from its target sub-tree adds
\* the key with the value None to that sub-tree; the settings rolled afterwards
\* take the option as present with the value None, not from its declared
\* default.
C30_AbsentWatchedIsNone ==
    WatchesAbsent =>
        /\ TriggersRan =>
              /\ k_goal \in DOMAIN t_out.top[K(GameName)].v
              /\ t_out.top[K(GameName)].v[k_goal] = NoneV
        /\ r_out # NoOut =>
              /\ r_out.err = "OptionError"
              /\ "goal" \notin DOMAIN r_out.opts

\* the trigger has run on such a document and the settings have been rolled
C30_Witness ==
    /\ WatchesAbsent
    /\ TriggersRan
    /\ t_out.top[K(GameName)].v[k_goal] = NoneV
    /\ r_out # NoOut
    /\ r_out.err = "OptionError"

\* the triggers of the document, and whether sub occurs in seq in seq's order
TriggerList == r_top[k_triggers].v
RECURSIVE InOrder(_, _)
InOrder(sub, seq) ==
    IF sub = <<>> THEN TRUE
    ELSE IF seq = <<>> THEN FALSE
    ELSE IF Head(sub) = Head(seq) THEN InOrder(Tail(sub), Tail(seq))
    ELSE InOrder(sub, Tail(seq))

Fired(trigger) == \E i \in DOMAIN t_out.fired : t_out.fired[i] = trigger
FlagSet == k_flagB \in DOMAIN t_out.top

\* the second trigger of a chain fires exactly when the overlay of the first
\* has put the value it watches for, and not when the first has taken it away
\* or comes later in the list
ChainInOrder ==
    /\ TriggerList = <<T_on, T_ifon>> => (Fired(T_ifon) <=> Fired(T_on))
    /\ TriggerList = <<T_off, T_ifon>> => (Fired(T_ifon) <=> ~Fired(T_off))
    /\ TriggerList = <<T_ifon, T_on>> => ~Fired(T_ifon)

\* a later trigger on the same option sees the value the first one wrote back:
\* of two triggers with no percentage both fire or neither does
WriteBackSeen ==
    TriggerList \in {<<T_setx, T_addx>>, <<T_on, T_badcat>>}
        => (\A i \in DOMAIN TriggerList : Fired(TriggerList[i]))
             \/ t_out.fired = <<>>

\* the place of the trigger that cannot be applied, in the lists that have one
BadPlace ==
    IF TriggerList = <<T_setx, T_remx, T_remx>> THEN 3
    ELSE IF TriggerList = <<T_on, T_badcat>> THEN 2
    ELSE 1

\* C28: roll_triggers takes the triggers in list order, each one resolving its
\* watched option in the copy as the earlier triggers left it, so that an
\* earlier overlay decides whether a later trigger fires; a failure is reported
\* with the place of the failing trigger in the list, counted from 1, and no
\* later trigger has run.
C28_TriggersInOrder ==
    (t_out # NoOut /\ k_triggers \in DOMAIN r_top) =>
        /\ InOrder(t_out.fired, TriggerList)
        /\ ChainInOrder
        /\ WriteBackSeen
        /\ t_out.err = "ok" => t_out.number = 0
        /\ t_out.err # "ok" =>
              /\ t_out.number = BadPlace
              /\ InOrder(t_out.fired, SubSeq(TriggerList, 1, t_out.number))
              /\ TriggerList = <<T_badcat, T_on>> => ~FlagSet

\* an earlier overlay has made the later trigger fire; and a failure at the
\* second trigger of a list has been reported
C28_Witness ==
    /\ t_out # NoOut
    /\ \/ TriggerList = <<T_on, T_ifon>> /\ Fired(T_ifon)
       \/ TriggerList = <<T_on, T_badcat>> /\ t_out.err # "ok" /\ t_out.number = 2

\* roll_settings returned for the document whose game section holds goal: X and
\* the trigger {option_name: goal, option_result: X} without option_category
GameTriggerRolled ==
    /\ r_out # NoOut /\ r_out.err = "ok"
    /\ r_top = Doc((k_goal :> S("X")) @@ (k_triggers :> Dicts(<<T_gamenocat>>)))

\* C21: a trigger declared in the game section, with no option_category, reads
\* the option it watches from the game section: the section's goal is X, so the
\* trigger fires and the settings hold the yoshi_color its overlay sets.
C21_GameTriggerScoped ==
    GameTriggerRolled => r_out.opts["yoshi_color"] = S("red")

(***************************************************************************)
(* SpecLinked: one roll_linked_options call on a document with up to       *)
(* MaxSets linked option sets.  The document is a tree: the set at each    *)
(* position has list objects of its own.                                   *)
(***************************************************************************)
MaxSets == 2        \* linked option sets of a document
LinkKinds == 4      \* list objects a position of linked_options holds

\* per position the lists [a], [b], [a], [c]; last the list [a, c] of the document
LinkHeap ==
    [n \in 1 .. (LinkKinds * MaxSets + 1) |->
        IF n = LinkKinds * MaxSets + 1 THEN <<"a", "c">>
        ELSE IF n % LinkKinds = 1 THEN <<"a">>
        ELSE IF n % LinkKinds = 2 THEN <<"b">>
        ELSE IF n % LinkKinds = 3 THEN <<"a">>
        ELSE <<"c">>]
LinkRef(i, kind) == L(LinkKinds * (i - 1) + kind)

\* the linked option sets a document can hold at position i
LK_setx(i, pct) == LinkedSet("setx", pct, <<Cat("", <<KV(kx, LinkRef(i, 1))>>)>>)
LK_addx(i, pct) == LinkedSet("addx", pct, <<Cat("", <<KV(Plus(kx), LinkRef(i, 2))>>)>>)
LK_remx(i, pct) == LinkedSet("remx", pct, <<Cat("", <<KV(Minus(kx), LinkRef(i, 3))>>)>>)
LK_game(i, pct) ==
    LinkedSet("game", pct, <<Cat(GameName, <<KV(ky, S("k"))>>),
                             Cat("", <<KV(Plus(kx), LinkRef(i, 4))>>)>>)
LinkedAt(i) ==
    UNION {{LK_setx(i, pct), LK_addx(i, pct), LK_remx(i, pct), LK_game(i, pct)} :
              pct \in {50, 100}} \cup {LS_noname}

\* the lists of linked option sets, each position with its own objects
LinkedSeqs ==
    UNION {{sets \in [1 .. n -> UNION {LinkedAt(i) : i \in 1 .. MaxSets}] :
               \A i \in 1 .. n : sets[i] \in LinkedAt(i)} : n \in 1 .. MaxSets}

\* the documents: with and without a game section, x absent, a list, a scalar
LinkBases ==
    {f @@ g : f \in {<<>>, (K(GameName) :> D(<<>>))},
              g \in {<<>>, (kx :> L(LinkKinds * MaxSets + 1)), (kx :> S("s"))}}
LinkDocs == {Put(b, k_linked, Dicts(sets)) : b \in LinkBases, sets \in LinkedSeqs}

\* the outcomes of roll_linked_options over every stream, each with its stream
RECURSIVE LinkedOutcomes(_, _, _)
LinkedOutcomes(top, heap, prefix) ==
    With(roll_linked_options(top, heap, prefix, 0),
         LAMBDA r :
            IF r.p <= Len(prefix)
            THEN {[err |-> r.err, top |-> r.top, heap |-> r.heap, p |-> r.p, s |-> prefix]}
            ELSE UNION {LinkedOutcomes(top, heap, next) :
                           next \in {Append(prefix, u) : u \in Draws}})

LinkInit ==
    /\ l_top \in LinkDocs
    /\ l_heap = LinkHeap
    /\ l_out = NoOut

\* roll_linked_options(weights) on the document
RollLinkedCall ==
    /\ l_out = NoOut
    /\ \E o \in LinkedOutcomes(l_top, l_heap, <<>>) :
          /\ l_out' = o
          /\ l_heap' = SubSeq(o.heap, 1, Len(l_heap))
    /\ UNCHANGED <<l_top, choiceVars, nameVars, rollVars, mainVars, mergeVars, metaVars>>

LinkNext == RollLinkedCall

InitLinked == LinkInit /\ ChoiceIdle /\ NameIdle /\ RollIdle /\ MainIdle /\ MergeIdle /\ MetaIdle

SpecLinked == InitLinked /\ [][LinkNext]_vars

\* what a key of a mapping holds, with a list given by its elements
ValueAt(top, heap, k) ==
    IF k \notin DOMAIN top THEN <<"absent">>
    ELSE IF top[k].t = "list" THEN <<"list", heap[top[k].ref]>>
    ELSE IF top[k].t = "dict" THEN <<"dict", top[k].v>>
    ELSE <<"value", top[k]>>

LinkedRan == l_out # NoOut
LinkedSets == l_top[k_linked].v

\* the call on the document with its last set left out, on the same stream
LinkedBefore ==
    IF Len(LinkedSets) = 1 THEN [err |-> "ok", top |-> l_top, heap |-> l_heap, p |-> 0]
    ELSE roll_linked_options(
            Put(l_top, k_linked, Dicts(SubSeq(LinkedSets, 1, Len(LinkedSets) - 1))),
            l_heap, l_out.s, 0)

\* the call with the last set alone on what the earlier sets returned
LinkedLast(before) ==
    roll_linked_options(
        Put(before.top, k_linked, Dicts(<<LinkedSets[Len(LinkedSets)]>>)),
        before.heap, l_out.s, before.p)

SameOptions(a, b) ==
    \A k \in {kx, ky, K(GameName)} : ValueAt(a.top, a.heap, k) = ValueAt(b.top, b.heap, k)

\* the last set is merged into what the earlier sets left
SeesEarlier ==
    With(LinkedBefore,
         LAMBDA before :
            IF before.err # "ok" THEN l_out.err = before.err
            ELSE With(LinkedLast(before),
                      LAMBDA last :
                         /\ l_out.err = last.err
                         /\ l_out.err = "ok" => SameOptions(l_out, last)))

\* x = [a] at 50 percent, then +x: [b] always, on a document without x
SetThenAdd ==
    /\ LinkedRan
    /\ kx \notin DOMAIN l_top
    /\ LinkedSets = <<LK_setx(1, 50), LK_addx(2, 100)>>
\* +x: [b] always, then x = [a] always, on a document without x
AddThenSet ==
    /\ LinkedRan
    /\ kx \notin DOMAIN l_top
    /\ LinkedSets = <<LK_addx(1, 100), LK_setx(2, 100)>>

\* C19: roll_linked_options applies the linked option sets in document order
\* to one copy: the merge of a set is computed against the copy as the earlier
\* sets whose percentage roll succeeded left it, and the document passed to
\* roll_linked_options, with its list objects, is left as it was.
C19_LinkedInOrder ==
    /\ [](LinkedRan => SeesEarlier)
    /\ [](SetThenAdd =>
            /\ l_out.err = "ok"
            /\ ValueAt(l_out.top, l_out.heap, kx) =
                  IF roll_percentage(N(50), l_out.s[1]) THEN <<"list", <<"a", "b">> >>
                  ELSE <<"list", <<"b">> >>)
    /\ [](AddThenSet =>
            (l_out.err = "ok" /\ ValueAt(l_out.top, l_out.heap, kx) = <<"list", <<"a">> >>))
    /\ [][l_top' = l_top /\ l_heap' = l_heap]_vars

\* the second set extended the list the first set had put at x
C19_Witness ==
    /\ SetThenAdd
    /\ l_out.err = "ok"
    /\ ValueAt(l_out.top, l_out.heap, kx) = <<"list", <<"a", "b">> >>
    /\ l_heap = LinkHeap

(***************************************************************************)
(* The meta document (main, lines 222-233).  meta_weights is a sequence of *)
(* categories Cat(name, items): name is None or a string, items are the    *)
(* entries of the category's mapping in order.                             *)
(***************************************************************************)
\* the mapping a category's items make
DictOf(items) ==
    [k \in {items[i].k : i \in DOMAIN items} |->
        items[CHOOSE i \in DOMAIN items : items[i].k = k].v]

OptionKeys == {GameOptions[i].key : i \in DOMAIN GameOptions}
OptionOf(key) == GameOptions[CHOOSE i \in DOMAIN GameOptions : GameOptions[i].key = key]
CommonKeys == {CommonOptions[i].key : i \in DOMAIN CommonOptions}

\* every option is resolved with get_choice, weightable or not
roll_meta_option_allchoice(option_key, game, category_dict, heap, s, p) ==
    IF game = NoneV \/ game = S("") THEN get_choice(option_key, category_dict, heap, NoneV, s, p)
    ELSE IF game.v \in world_types /\ option_key.base \in OptionKeys /\ option_key.pre = <<>>
    THEN get_choice(option_key, category_dict, heap, NoneV, s, p)
    ELSE Err("OptionError", p)

\* roll_meta_option(option_key, game, category_dict)
roll_meta_option(option_key, game, category_dict, heap, s, p) ==
    IF game = NoneV \/ game = S("") THEN get_choice(option_key, category_dict, heap, NoneV, s, p)
    ELSE IF game.v \in world_types /\ option_key.base \in OptionKeys /\ option_key.pre = <<>>
    THEN IF OptionOf(option_key.base).supports_weighting
         THEN get_choice(option_key, category_dict, heap, NoneV, s, p)
         ELSE Ok(category_dict[option_key], p)
    ELSE Err("OptionError", p)

\* the document is left as it is
MetaWrite_skip(yaml, category_name, key, option) == [err |-> "ok", yaml |-> yaml]

\* lines 228-233: one document of weights_cache given the option of a meta key
MetaWrite(yaml, category_name, key, option) ==
    IF category_name = NoneV THEN
        IF \E category \in DOMAIN yaml :
              /\ category.pre = <<>> /\ category.base \in world_types
              /\ key.base \in CommonKeys /\ key.pre = <<>>
              /\ yaml[category].t # "dict"
        THEN [err |-> "TypeError", yaml |-> yaml]
        ELSE [err |-> "ok",
              yaml |-> [category \in DOMAIN yaml |->
                          IF /\ category.pre = <<>> /\ category.base \in world_types
                             /\ key.base \in CommonKeys /\ key.pre = <<>>
                          THEN D(Put(yaml[category].v, key, option))
                          ELSE yaml[category]]]
    ELSE IF K(category_name.v) \notin DOMAIN yaml THEN [err |-> "ok", yaml |-> yaml]
    ELSE IF yaml[K(category_name.v)].t # "dict" THEN [err |-> "TypeError", yaml |-> yaml]
    ELSE [err |-> "ok",
          yaml |-> [yaml EXCEPT ![K(category_name.v)] = D(Put(@.v, key, option))]]

\* lines 226-233: the documents of weights_cache in order, from document i
RECURSIVE MetaDocs(_, _, _, _, _)
MetaDocs(cache, i, category_name, key, option) ==
    IF i > Len(cache) THEN [err |-> "ok", cache |-> cache]
    ELSE With(MetaWrite(cache[i], category_name, key, option),
              LAMBDA w :
                 IF w.err # "ok" THEN [err |-> w.err, cache |-> cache]
                 ELSE MetaDocs([cache EXCEPT ![i] = w.yaml], i + 1, category_name, key, option))

\* lines 223-233: the keys of the categories of meta_weights, from key j of
\* category c; st = [err, cache, p, resolved]
RECURSIVE MetaLoop(_, _, _, _, _, _)
MetaLoop(st, meta, c, j, heap, s) ==
    IF st.err # "ok" \/ c > Len(meta) THEN st
    ELSE IF j > Len(meta[c].delta) THEN MetaLoop(st, meta, c + 1, 1, heap, s)
    ELSE With(roll_meta_option(meta[c].delta[j].k, meta[c].cat, DictOf(meta[c].delta),
                               heap, s, st.p),
              LAMBDA option :
                 IF option.err # "ok" THEN [st EXCEPT !.err = option.err, !.p = option.p]
                 ELSE IF option.val = NoneV
                 THEN MetaLoop([st EXCEPT !.p = option.p], meta, c, j + 1, heap, s)
                 ELSE With(MetaDocs(st.cache, 1, meta[c].cat, meta[c].delta[j].k, option.val),
                           LAMBDA d :
                              MetaLoop([err |-> d.err, cache |-> d.cache, p |-> option.p,
                                        resolved |-> Append(st.resolved,
                                                       [cat |-> meta[c].cat,
                                                        key |-> meta[c].delta[j].k,
                                                        option |-> option.val])],
                                       meta, c, j + 1, heap, s)))

\* lines 222-233: if meta_weights: ...
MetaBroadcast(meta, cache, heap, s, p) ==
    MetaLoop([err |-> "ok", cache |-> cache, p |-> p, resolved |-> <<>>], meta, 1, 1, heap, s)

\* lines 241-250: the participants' settings, one participant for each document
\* of weights_cache in order; st = [err, p, heap, rolled]
RECURSIVE MetaRolls(_, _, _, _)
MetaRolls(st, cache, i, s) ==
    IF st.err # "ok" \/ i > Len(cache) THEN st
    ELSE With(roll_settings(cache[i], st.heap, s, st.p),
              LAMBDA r :
                 MetaRolls([err |-> IF r.err = "ok" THEN "ok" ELSE "FileInvalid",
                            p |-> r.p, heap |-> r.heap, rolled |-> Append(st.rolled, r)],
                           cache, i + 1, s))

\* lines 222-250: the broadcast, then the rolls
MetaThenRolls(meta, cache, heap, s) ==
    With(MetaBroadcast(meta, cache, heap, s, 0),
         LAMBDA b :
            IF b.err # "ok"
            THEN [err |-> b.err, cache |-> b.cache, resolved |-> b.resolved, p |-> b.p,
                  heap |-> heap, rolled |-> <<>>, s |-> s]
            ELSE With(MetaRolls([err |-> "ok", p |-> b.p, heap |-> heap, rolled |-> <<>>],
                                b.cache, 1, s),
                      LAMBDA r :
                         [err |-> r.err, cache |-> b.cache, resolved |-> b.resolved,
                          p |-> r.p, heap |-> r.heap, rolled |-> r.rolled, s |-> s]))

(***************************************************************************)
(* SpecMeta: a direct roll_meta_option call on a key of the meta document, *)
(* and the part of main from the broadcast to the participants' rolls.     *)
(* weights_cache holds MaxDocs documents, each serving one participant.    *)
(***************************************************************************)
MaxDocs == 2        \* documents of weights_cache

MetaCat(name, items) == Cat(name, items)
TwoColors == M(<<W("red", 1), W("green", 1)>>)

\* the meta documents
MetaDocuments ==
    {<<MetaCat(S(GameName), <<KV(k_goal, v)>>)>> :
        v \in {S("Y"), WeightedGoal, M(<<>>), NoneV}}
    \cup {<<MetaCat(S(GameName), <<KV(K("yoshi_color"), v)>>)>> :
             v \in {S("red"), TwoColors}}
    \cup {<<MetaCat(S(GameName), <<KV(k_goal, WeightedGoal), KV(K("yoshi_color"), S("red"))>>)>>,
          <<MetaCat(S(GameName), <<KV(K("bogus"), S("1"))>>)>>,
          <<MetaCat(S("Chess"), <<KV(k_goal, S("Y"))>>)>>,
          <<MetaCat(NoneV, <<KV(K("accessibility"), M(<<W("full", 1), W("minimal", 1)>>))>>)>>,
          <<MetaCat(NoneV, <<KV(k_goal, S("Y"))>>),
            MetaCat(S(GameName), <<KV(k_goal, WeightedGoal)>>)>>}

\* the documents of the participants: a game section that is a mapping, an
\* empty game section (None), no section of the game
CacheDocs ==
    {Doc(g) : g \in {<<>>, (k_goal :> S("X")), (k_goal :> WeightedGoal)}}
        \cup {(k_game :> S(GameName)) @@ (K(GameName) :> NoneV),
              (k_game :> S("Chess")) @@ (K("Chess") :> D((k_goal :> S("X"))))}

MetaInit ==
    /\ mt_meta \in MetaDocuments
    /\ mt_cache \in UNION {[1 .. n -> CacheDocs] : n \in 1 .. MaxDocs}
    /\ mt_heap = LibHeap
    /\ mt_opt = NoOut
    /\ mt_out = NoOut

\* the outcomes of roll_meta_option on key j of category c, over every stream
MetaOptionOutcomes(c, j) ==
    {With(roll_meta_option(mt_meta[c].delta[j].k, mt_meta[c].cat, DictOf(mt_meta[c].delta),
                           mt_heap, <<u>>, 0),
          LAMBDA r : [err |-> r.err, val |-> r.val, p |-> r.p, cat |-> mt_meta[c].cat,
                      key |-> mt_meta[c].delta[j].k,
                      given |-> mt_meta[c].delta[j].v, u |-> u]) : u \in Draws}

\* roll_meta_option(key, category_name, category_dict)
RollMetaOptionCall ==
    /\ mt_opt = NoOut /\ mt_out = NoOut
    /\ \E c \in DOMAIN mt_meta :
          \E j \in DOMAIN mt_meta[c].delta :
             \E o \in MetaOptionOutcomes(c, j) : mt_opt' = o
    /\ UNCHANGED <<mt_meta, mt_cache, mt_heap, mt_out,
                   choiceVars, nameVars, rollVars, mainVars, mergeVars, linkVars>>

RECURSIVE MetaOutcomes(_, _, _, _)
MetaOutcomes(meta, cache, heap, prefix) ==
    With(MetaThenRolls(meta, cache, heap, prefix),
         LAMBDA r :
            IF r.p <= Len(prefix) THEN {r}
            ELSE UNION {MetaOutcomes(meta, cache, heap, next) :
                           next \in {Append(prefix, u) : u \in Draws}})

\* main from line 222 to the end of the participant loop; mt_cache keeps the
\* documents as they were loaded, mt_out.cache holds them after the broadcast
MetaMainCall ==
    /\ mt_out = NoOut
    /\ \E o \in MetaOutcomes(mt_meta, mt_cache, mt_heap, <<>>) : mt_out' = o
    /\ UNCHANGED <<mt_meta, mt_cache, mt_heap, mt_opt,
                   choiceVars, nameVars, rollVars, mainVars, mergeVars, linkVars>>

MetaNext == RollMetaOptionCall \/ MetaMainCall

InitMeta ==
    MetaInit /\ ChoiceIdle /\ NameIdle /\ RollIdle /\ MainIdle /\ MergeIdle /\ LinkIdle

SpecMeta == InitMeta /\ [][MetaNext]_vars

\* a direct roll_meta_option call was made for a registered game
MetaOptionRan == mt_opt # NoOut
ForRegisteredGame == MetaOptionRan /\ mt_opt.cat.t = "scalar" /\ mt_opt.cat.v \in world_types
KeyWeightable == mt_opt.key.base \in OptionKeys /\ OptionOf(mt_opt.key.base).supports_weighting
KeyNotWeightable ==
    mt_opt.key.base \in OptionKeys /\ ~OptionOf(mt_opt.key.base).supports_weighting

\* C22 as stated: roll_meta_option fails for a registered game without the
\* option key, fails for a non-weightable option that is given a weighted map,
\* and never returns a weighted map for a non-weightable option.
C22_Original ==
    /\ (ForRegisteredGame /\ mt_opt.key.base \notin OptionKeys) => mt_opt.err = "OptionError"
    /\ (ForRegisteredGame /\ KeyNotWeightable /\ mt_opt.given.t = "map") =>
          mt_opt.err = "OptionError"
    /\ (ForRegisteredGame /\ KeyNotWeightable /\ mt_opt.err = "ok") => mt_opt.val.t # "map"

\* C22: roll_meta_option fails for a category that is not a registered game and
\* for a registered game without the option key; for a non-weightable option
\* of a registered game it returns the value of the meta document as it is,
\* a weighted map included, without a draw; for a weightable option it returns
\* what get_choice resolves the value to.
C22_MetaOption ==
    /\ (ForRegisteredGame /\ mt_opt.key.base \notin OptionKeys) => mt_opt.err = "OptionError"
    /\ (MetaOptionRan /\ mt_opt.cat.t = "scalar" /\ mt_opt.cat.v \notin world_types
          /\ mt_opt.cat.v # "") => mt_opt.err = "OptionError"
    /\ (ForRegisteredGame /\ KeyNotWeightable) =>
          (mt_opt.err = "ok" /\ mt_opt.val = mt_opt.given /\ mt_opt.p = 0)
    /\ (ForRegisteredGame /\ KeyWeightable /\ mt_opt.err = "ok") =>
          /\ mt_opt.val.t # "map"
          /\ mt_opt.given.t = "scalar" => (mt_opt.val = mt_opt.given /\ mt_opt.p = 0)
          /\ (mt_opt.given.t = "map" /\ mt_opt.given.v # <<>>) =>
                (mt_opt.val = S(WeightedPick(mt_opt.given.v, mt_opt.u)) /\ mt_opt.p = 1)
          /\ (mt_opt.given.t = "map" /\ mt_opt.given.v = <<>>) => mt_opt.val = NoneV

\* the weighted map given for yoshi_color, which is not weightable, is returned
C22_Witness ==
    /\ ForRegisteredGame /\ mt_opt.key = K("yoshi_color")
    /\ mt_opt.err = "ok" /\ mt_opt.val = TwoColors

\* main ran from the broadcast on; the options it resolved for a named category
MetaRan == mt_out # NoOut
NamedResolved ==
    {mt_out.resolved[n] : n \in {x \in DOMAIN mt_out.resolved : mt_out.resolved[x].cat.t = "scalar"}}
HasCategory(doc, cat) == K(cat.v) \in DOMAIN doc
HasMapping(doc, cat) == HasCategory(doc, cat) /\ doc[K(cat.v)].t = "dict"
\* the keys the meta document names for the category
MetaKeys(cat) ==
    UNION {{mt_meta[c].delta[j].k : j \in DOMAIN mt_meta[c].delta} :
              c \in {x \in DOMAIN mt_meta : mt_meta[x].cat = cat}}

\* document i holds the option at the key, and the rest of it is as it was loaded
Written(i, r) ==
    /\ HasMapping(mt_out.cache[i], r.cat)
    /\ r.key \in DOMAIN mt_out.cache[i][K(r.cat.v)].v
    /\ mt_out.cache[i][K(r.cat.v)].v[r.key] = r.option
    /\ DOMAIN mt_out.cache[i] = DOMAIN mt_cache[i]
    /\ \A k \in DOMAIN mt_cache[i] \ {K(r.cat.v)} : mt_out.cache[i][k] = mt_cache[i][k]
    /\ \A k \in DOMAIN mt_cache[i][K(r.cat.v)].v \ MetaKeys(r.cat) :
          mt_out.cache[i][K(r.cat.v)].v[k] = mt_cache[i][K(r.cat.v)].v[k]

\* the participants were rolled from the documents the broadcast left
RolledAfter ==
    \A i \in DOMAIN mt_out.rolled :
       \A r \in NamedResolved :
          (mt_out.rolled[i].err = "ok" /\ HasMapping(mt_cache[i], r.cat)
             /\ r.key.base \in OptionKeys) =>
                mt_out.rolled[i].opts[r.key.base] = r.option

\* the one weighted goal of the meta document is resolved by one draw
OneDraw ==
    (mt_meta = <<MetaCat(S(GameName), <<KV(k_goal, WeightedGoal)>>)>>) =>
        /\ Len(mt_out.resolved) = 1
        /\ mt_out.resolved[1].option = S(WeightedPick(WeightedGoal.v, mt_out.s[1]))

\* C23 as stated: an option resolved for the category C and the key k is
\* resolved once and written to doc[C][k] of every document that has the
\* category C; documents without C are unchanged; the rolls come after.
C23_Original ==
    MetaRan =>
       /\ \A r \in NamedResolved : \A i \in DOMAIN mt_cache :
             IF HasCategory(mt_cache[i], r.cat) THEN Written(i, r)
             ELSE mt_out.cache[i] = mt_cache[i]
       /\ RolledAfter /\ OneDraw

\* C23: when every document that has the category C holds a mapping there, an
\* option resolved for C and the key k is resolved once and written to
\* doc[C][k] of each of them, documents without C are unchanged, and the
\* participants are rolled afterwards from the documents so written.  When a
\* document holds the key C with a value that is not a mapping, main fails
\* with TypeError at that document and no participant is rolled.
C23_Broadcast ==
    MetaRan =>
       /\ \A r \in NamedResolved :
             IF \A i \in DOMAIN mt_cache :
                   HasCategory(mt_cache[i], r.cat) => HasMapping(mt_cache[i], r.cat)
             THEN /\ mt_out.err # "TypeError"
                  /\ \A i \in DOMAIN mt_cache :
                        IF HasCategory(mt_cache[i], r.cat) THEN Written(i, r)
                        ELSE mt_out.cache[i] = mt_cache[i]
             ELSE /\ mt_out.err = "TypeError" /\ mt_out.rolled = <<>>
                  /\ \A i \in DOMAIN mt_cache :
                        (\A j \in 1 .. i : HasMapping(mt_cache[j], r.cat)) => Written(i, r)
       /\ RolledAfter /\ OneDraw

\* one resolved goal in two documents that declared different goals, and both
\* participants rolled with it
C23_Witness ==
    /\ MetaRan /\ mt_out.err = "ok"
    /\ mt_meta = <<MetaCat(S(GameName), <<KV(k_goal, WeightedGoal)>>)>>
    /\ mt_cache = <<Doc((k_goal :> S("X"))), Doc(<<>>)>>
    /\ mt_out.resolved[1].option = S("Y")
    /\ Len(mt_out.rolled) = 2
    /\ \A i \in 1 .. 2 : mt_out.rolled[i].opts["goal"] = S("Y")

(***************************************************************************)
(* Strings are sequences of one-character strings.                         *)
(***************************************************************************)
UpperChars == <<"A", "B", "C", "D", "E", "F", "G", "H", "I", "J", "K", "L", "M", "N", "O", "P", "Q", "R", "S", "T", "U", "V", "W", "X", "Y", "Z">>
LowerChars == <<"a", "b", "c", "d", "e", "f", "g", "h", "i", "j", "k", "l", "m", "n", "o", "p", "q", "r", "s", "t", "u", "v", "w", "x", "y", "z">>
DigitChars == <<"0", "1", "2", "3", "4", "5", "6", "7", "8", "9">>

\* str.lower() of one character
LowerChar(c) ==
    IF \E i \in 1 .. Len(UpperChars) : UpperChars[i] = c
    THEN LowerChars[CHOOSE i \in 1 .. Len(UpperChars) : UpperChars[i] = c]
    ELSE c

\* str.lower()
Lower(str) == [i \in 1 .. Len(str) |-> LowerChar(str[i])]

\* str(n) for n >= 0
RECURSIVE IntToStr(_)
IntToStr(n) ==
    IF n < 10 THEN <<DigitChars[n + 1]>>
    ELSE IntToStr(n \div 10) \o <<DigitChars[(n % 10) + 1]>>

\* str[i:] starts with pat
StartsAt(str, i, pat) ==
    /\ i + Len(pat) - 1 <= Len(str)
    /\ \A j \in 1 .. Len(pat) : str[i + j - 1] = pat[j]

\* str.split(sep), scanning left to right from position i with the segment cur open
RECURSIVE SplitFrom(_, _, _, _)
SplitFrom(str, sep, i, cur) ==
    IF i > Len(str) THEN <<cur>>
    ELSE IF StartsAt(str, i, sep)
         THEN <<cur>> \o SplitFrom(str, sep, i + Len(sep), <<>>)
         ELSE SplitFrom(str, sep, i + 1, Append(cur, str[i]))

Split(str, sep) == SplitFrom(str, sep, 1, <<>>)

\* str.replace(pat, rep): left to right, non-overlapping
RECURSIVE ReplaceFrom(_, _, _, _)
ReplaceFrom(str, pat, rep, i) ==
    IF i > Len(str) THEN <<>>
    ELSE IF StartsAt(str, i, pat)
         THEN rep \o ReplaceFrom(str, pat, rep, i + Len(pat))
         ELSE <<str[i]>> \o ReplaceFrom(str, pat, rep, i + 1)

Replace(str, pat, rep) == ReplaceFrom(str, pat, rep, 1)

\* sep.join(parts)
RECURSIVE Join(_, _)
Join(parts, sep) ==
    IF Len(parts) = 0 THEN <<>>
    ELSE IF Len(parts) = 1 THEN parts[1]
    ELSE parts[1] \o sep \o Join(Tail(parts), sep)

IsSpace(c) == c = " "

\* str.strip()
RECURSIVE LStrip(_)
LStrip(str) == IF str # <<>> /\ IsSpace(str[1]) THEN LStrip(Tail(str)) ELSE str
RECURSIVE RStrip(_)
RStrip(str) ==
    IF str # <<>> /\ IsSpace(str[Len(str)]) THEN RStrip(SubSeq(str, 1, Len(str) - 1)) ELSE str
Strip(str) == RStrip(LStrip(str))

\* str[:n]
Prefix(str, n) == SubSeq(str, 1, IF Len(str) < n THEN Len(str) ELSE n)

\* the index of the first occurrence of c in str at or after i, 0 if none
RECURSIVE FindChar(_, _, _)
FindChar(str, c, i) ==
    IF i > Len(str) THEN 0
    ELSE IF str[i] = c THEN i ELSE FindChar(str, c, i + 1)

s_number == <<"n", "u", "m", "b", "e", "r">>
s_NUMBER == <<"N", "U", "M", "B", "E", "R">>
s_player == <<"p", "l", "a", "y", "e", "r">>
s_PLAYER == <<"P", "L", "A", "Y", "E", "R">>
s_Archipelago == <<"A", "r", "c", "h", "i", "p", "e", "l", "a", "g", "o">>
t_number == <<"%">> \o s_number \o <<"%">>
t_player == <<"%">> \o s_player \o <<"%">>
b_number == <<"{">> \o s_number \o <<"}">>
b_player == <<"{">> \o s_player \o <<"}">>

NameLimit == 16

\* SafeFormatter.get_value for a keyword field: kwargs.get(key, "{" + key + "}");
\* an empty field name is auto-numbered to the index 0, which args does not hold
SafeValue(key, number, player) ==
    IF key = s_number THEN IntToStr(number)
    ELSE IF key = s_NUMBER THEN (IF number > 1 THEN IntToStr(number) ELSE <<>>)
    ELSE IF key = s_player THEN IntToStr(player)
    ELSE IF key = s_PLAYER THEN (IF player > 1 THEN IntToStr(player) ELSE <<>>)
    ELSE IF key = <<>> THEN <<"{", "0", "}">>
    ELSE <<"{">> \o key \o <<"}">>

\* string.Formatter.vformat over names without '!', ':', '.', '[' and digits in
\* their fields: "{{" and "}}" are literal braces, "{key}" is a field, a single
\* brace is a ValueError
RECURSIVE VFormatFrom(_, _, _, _)
VFormatFrom(str, i, number, player) ==
    IF i > Len(str) THEN [err |-> "ok", out |-> <<>>]
    ELSE IF str[i] = "{" THEN
        IF i < Len(str) /\ str[i + 1] = "{"
        THEN LET r == VFormatFrom(str, i + 2, number, player)
             IN  [r EXCEPT !.out = <<"{">> \o @]
        ELSE LET j == FindChar(str, "}", i + 1)
                 o == FindChar(str, "{", i + 1)
             IN  IF j = 0 \/ (o # 0 /\ o < j)
                 THEN [err |-> "ValueError", out |-> <<>>]
                 ELSE LET r == VFormatFrom(str, j + 1, number, player)
                      IN  [r EXCEPT !.out =
                                SafeValue(SubSeq(str, i + 1, j - 1), number, player) \o @]
    ELSE IF str[i] = "}" THEN
        IF i < Len(str) /\ str[i + 1] = "}"
        THEN LET r == VFormatFrom(str, i + 2, number, player)
             IN  [r EXCEPT !.out = <<"}">> \o @]
        ELSE [err |-> "ValueError", out |-> <<>>]
    ELSE LET r == VFormatFrom(str, i + 1, number, player)
         IN  [r EXCEPT !.out = <<str[i]>> \o @]

VFormat(str, number, player) == VFormatFrom(str, 1, number, player)

\* the Counter after name_counter[name.lower()] += 1
CounterInc(counter, key) ==
    IF key \in DOMAIN counter THEN [counter EXCEPT ![key] = @ + 1]
    ELSE counter @@ (key :> 1)

\* the upper-case tokens are turned into fields as well
ReplaceTokens_upper(x) ==
    With(Replace(x, t_number, b_number),
         LAMBDA y :
    With(Replace(y, t_player, b_player),
         LAMBDA z :
    With(Replace(z, <<"%">> \o s_NUMBER \o <<"%">>, <<"{">> \o s_NUMBER \o <<"}">>),
         LAMBDA w : Replace(w, <<"%">> \o s_PLAYER \o <<"%">>, <<"{">> \o s_PLAYER \o <<"}">>))))

\* x.replace("%number%", "{number}").replace("%player%", "{player}")
ReplaceTokens(x) ==
    With(Replace(x, t_number, b_number), LAMBDA y : Replace(y, t_player, b_player))

\* the template with its tokens turned into format fields
NameTemplate(name) ==
    With(Split(name, <<"%", "%">>),
         LAMBDA parts : Join([i \in 1 .. Len(parts) |-> ReplaceTokens(parts[i])], <<"%">>))

\* the name is stripped once, before it is cut
NameResult_onestrip(template, player, key, counter) ==
    With(VFormat(template, counter[key], player),
         LAMBDA fmt :
    With(Prefix(Strip(fmt.out), NameLimit),
         LAMBDA new_name :
            [err |-> IF fmt.err # "ok" THEN fmt.err
                     ELSE IF new_name = s_Archipelago THEN "Reserved" ELSE "ok",
             name |-> new_name, number |-> counter[key], counter |-> counter]))

\* lines 484-495 for the template and the counter after line 481
NameResult(template, player, key, counter) ==
    With(VFormat(template, counter[key], player),
         LAMBDA fmt :
    With(Strip(Prefix(Strip(fmt.out), NameLimit)),
         LAMBDA new_name :
            [err |-> IF fmt.err # "ok" THEN fmt.err
                     ELSE IF new_name = s_Archipelago THEN "Reserved" ELSE "ok",
             name |-> new_name, number |-> counter[key], counter |-> counter]))

\* handle_name without the split at "%%"
handle_name_nosplit(name, player, name_counter) ==
    With(ReplaceTokens(name),
         LAMBDA template :
    With(CounterInc(name_counter, Lower(name)),
         LAMBDA counter : NameResult(template, player, Lower(name), counter)))

\* handle_name counting under the raw name as it is written
handle_name_rawkey(name, player, name_counter) ==
    With(NameTemplate(name),
         LAMBDA template :
    With(CounterInc(name_counter, name),
         LAMBDA counter : NameResult(template, player, name, counter)))

\* handle_name: the name returned, the number substituted and the counter after
handle_name(name, player, name_counter) ==
    With(NameTemplate(name),
         LAMBDA template :
    With(CounterInc(name_counter, Lower(name)),
         LAMBDA counter : NameResult(template, player, Lower(name), counter)))

(***************************************************************************)
(* SpecName: a run's handle_name calls, on raw names from a bounded set.   *)
(***************************************************************************)
MaxCalls == 3       \* handle_name calls in one run
MaxPlayer == 3      \* participant indices range over 1..MaxPlayer

r_PctPlayer == <<"%", "%", "P", "l", "a", "y", "e", "r", "%", "p", "l", "a", "y", "e", "r", "%", "%", "%">>
r_Player == <<"P", "l", "a", "y", "e", "r", "%", "p", "l", "a", "y", "e", "r", "%">>
r_Number == <<"P", "l", "a", "y", "e", "r", "%", "n", "u", "m", "b", "e", "r", "%">>
r_Bob == <<"B", "o", "b">>
r_bob == <<"b", "o", "b">>
r_UpTok == <<"P", "%", "N", "U", "M", "B", "E", "R", "%", "%", "P", "L", "A", "Y", "E", "R", "%">>
r_UpBrace == <<"P", "{", "N", "U", "M", "B", "E", "R", "}", "{", "P", "L", "A", "Y", "E", "R", "}">>
r_UpNum == <<"P", "%", "N", "U", "M", "B", "E", "R", "%">>
r_UpPlay == <<"P", "%", "P", "L", "A", "Y", "E", "R", "%">>
r_Long == <<" ", "a", "b", "c", "d", "e", "f", "g", "h", "i", "j", "k", "l", "m", "n", "o", " ", "p", "q", " ", " ">>
r_Brace == <<"a", "{", "b">>
r_Unknown == <<"{", "x", "}", "{", "{", "%", "%">>

RawNames == {r_PctPlayer, r_Player, r_Number, r_Bob, r_bob, r_UpTok, r_UpBrace,
             r_UpNum, r_UpPlay,
             r_Long, r_Brace, r_Unknown, s_Archipelago}

NoCall == [raw |-> <<>>, player |-> 0, err |-> "none", name |-> <<>>, number |-> 0]

NameInit ==
    /\ n_counter = <<>>
    /\ n_seen = <<>>
    /\ n_calls = 0
    /\ n_last = NoCall

\* one call; the exception handle_name raises ends the run
HandleNameCall ==
    /\ n_calls < MaxCalls
    /\ n_last.err \in {"none", "ok"}
    /\ \E raw \in RawNames, player \in 1 .. MaxPlayer :
          LET r == handle_name(raw, player, n_counter) IN
          /\ n_counter' = r.counter
          /\ n_seen' = Append(n_seen, raw)
          /\ n_last' = [raw |-> raw, player |-> player, err |-> r.err,
                        name |-> r.name, number |-> r.number]
    /\ n_calls' = n_calls + 1
    /\ UNCHANGED <<choiceVars, rollVars, mainVars, mergeVars, linkVars, metaVars>>

NameNext == HandleNameCall

InitName == NameInit /\ ChoiceIdle /\ RollIdle /\ MainIdle /\ MergeIdle /\ LinkIdle /\ MetaIdle

SpecName == InitName /\ [][NameNext]_vars

\* the calls made so far whose raw name is raw
Uses(raw) == Cardinality({i \in 1 .. Len(n_seen) : n_seen[i] = raw})

o_Player3 == <<"P", "l", "a", "y", "e", "r", "3">>
o_Player2 == <<"P", "l", "a", "y", "e", "r", "2">>
o_PctPlayer == <<"%", "P", "l", "a", "y", "e", "r", "%", "p", "l", "a", "y", "e", "r", "%", "%">>

\* C8 as stated: the first use of the raw name %%Player%player%%% for participant 3
\* returns Player3, and a second call with the identical raw name substitutes 2.
C8_Original ==
    /\ (n_last.raw = r_PctPlayer /\ n_last.player = 3 /\ Uses(r_PctPlayer) = 1)
          => (n_last.err = "ok" /\ n_last.name = o_Player3)
    /\ (n_last.raw = r_PctPlayer /\ Uses(r_PctPlayer) = 2) => n_last.number = 2

\* C8 as amended: %%Player%player%%% for participant 3 returns %Player%player%%
\* (each %% becomes a literal % and the %player% token, cut by the split, is not
\* substituted); Player%player% for participant 3 returns Player3; the second
\* call with an identical raw name substitutes 2 for %number%.
C8_HandleNameExample ==
    /\ (n_last.raw = r_PctPlayer /\ n_last.player = 3 /\ Uses(r_PctPlayer) = 1)
          => (n_last.err = "ok" /\ n_last.name = o_PctPlayer)
    /\ (n_last.raw = r_Player /\ n_last.player = 3)
          => (n_last.err = "ok" /\ n_last.name = o_Player3)
    /\ (n_last.raw = r_PctPlayer /\ Uses(r_PctPlayer) = 2) => n_last.number = 2
    /\ (n_last.raw = r_Number /\ Uses(r_Number) = 2)
          => (n_last.err = "ok" /\ n_last.number = 2 /\ n_last.name = o_Player2)

C8_Witness ==
    /\ n_seen = <<r_PctPlayer, r_PctPlayer>>
    /\ n_last.player = 3 /\ n_last.number = 2 /\ n_last.name = o_PctPlayer

\* n when n > 1 and the participant index when it is above 1, else nothing
UpperNumber == IF n_last.number > 1 THEN IntToStr(n_last.number) ELSE <<>>
UpperPlayer == IF n_last.player > 1 THEN IntToStr(n_last.player) ELSE <<>>

\* C24 as stated: the token %NUMBER% is replaced by n when n > 1 and by nothing
\* otherwise, and %PLAYER% by the participant index when it is above 1 and by
\* nothing otherwise, as %number% and %player% are replaced.
C24_Original ==
    /\ n_last.raw = r_UpNum => (n_last.err = "ok" /\ n_last.name = <<"P">> \o UpperNumber)
    /\ n_last.raw = r_UpPlay => (n_last.err = "ok" /\ n_last.name = <<"P">> \o UpperPlayer)
    /\ n_last.raw = r_Number =>
          (n_last.err = "ok" /\ n_last.name = <<"P", "l", "a", "y", "e", "r">> \o IntToStr(n_last.number))
    /\ n_last.raw = r_Player =>
          (n_last.err = "ok" /\ n_last.name = <<"P", "l", "a", "y", "e", "r">> \o IntToStr(n_last.player))

\* C24: the conditional replacements are those of the fields {NUMBER} and
\* {PLAYER}: P{NUMBER}{PLAYER} gives P, n when n > 1, the participant index
\* when it is above 1.  The tokens %NUMBER% and %PLAYER% are not replaced: the
\* names P%NUMBER% and P%PLAYER% are returned as they are.  %number% and
\* %player% are replaced by n and the participant index.
C24_UpperTokens ==
    /\ n_last.raw = r_UpBrace =>
          (n_last.err = "ok" /\ n_last.name = <<"P">> \o UpperNumber \o UpperPlayer)
    /\ n_last.raw = r_UpNum => (n_last.err = "ok" /\ n_last.name = r_UpNum)
    /\ n_last.raw = r_UpPlay => (n_last.err = "ok" /\ n_last.name = r_UpPlay)
    /\ n_last.raw = r_Number =>
          (n_last.err = "ok" /\ n_last.name = <<"P", "l", "a", "y", "e", "r">> \o IntToStr(n_last.number))
    /\ n_last.raw = r_Player =>
          (n_last.err = "ok" /\ n_last.name = <<"P", "l", "a", "y", "e", "r">> \o IntToStr(n_last.player))

\* the second use of P%NUMBER%, returned as it was written
C24_Witness ==
    /\ n_last.raw = r_UpNum /\ n_last.number = 2
    /\ n_last.err = "ok" /\ n_last.name = r_UpNum

\* C25: every name handle_name returns has at most 16 characters and neither
\* leading nor trailing whitespace.
C25_NameBounded ==
    n_last.err = "ok" =>
       /\ Len(n_last.name) <= NameLimit
       /\ n_last.name # <<>> =>
             (~IsSpace(n_last.name[1]) /\ ~IsSpace(n_last.name[Len(n_last.name)]))

\* the cut at 16 characters left a space at the end, which the second strip took
C25_Witness ==
    /\ n_last.raw = r_Long /\ n_last.err = "ok"
    /\ Len(Strip(r_Long)) > NameLimit
    /\ IsSpace(Strip(r_Long)[NameLimit])
    /\ Len(n_last.name) = NameLimit - 1

\* the calls made so far with a raw name that lower-cases to key
CallsOf(key) == Cardinality({i \in 1 .. Len(n_seen) : Lower(n_seen[i]) = key})

\* C26: name_counter[lower(raw)] is the number of calls made so far with a raw
\* name that lower-cases to that key, the number the k-th such call
\* substitutes is k, a count never decreases, and a call leaves the counts of
\* the other keys as they were.
C26_CounterCounts ==
    /\ [](/\ DOMAIN n_counter = {Lower(n_seen[i]) : i \in 1 .. Len(n_seen)}
          /\ \A key \in DOMAIN n_counter : n_counter[key] = CallsOf(key)
          /\ n_calls > 0 => n_last.number = CallsOf(Lower(n_last.raw)))
    /\ [][/\ DOMAIN n_counter \subseteq DOMAIN n_counter'
           /\ \A key \in DOMAIN n_counter :
                 /\ n_counter'[key] >= n_counter[key]
                 /\ key # Lower(n_last'.raw) => n_counter'[key] = n_counter[key]]_vars

\* Bob, then bob: the second call substitutes 2
C26_Witness ==
    /\ n_seen = <<r_Bob, r_bob>>
    /\ n_counter[r_bob] = 2 /\ n_last.number = 2

(***************************************************************************)
(* main: one run resolves the participants 1 .. args.multi.  The meta file *)
(* and the JSON configuration are not given (args.meta_file_path names no  *)
(* file, args.json_data is None); the player files are the files that      *)
(* os.scandir finds.  The keys of weights_cache sort with the player files *)
(* first and the weights file last.  A run is followed by a second run on  *)
(* the same seed and the same files: m_stream holds the draws of the       *)
(* source seeded with that seed, as far as a run has read them.            *)
(***************************************************************************)
MaxMulti == 2       \* args.multi as it is given
MaxFiles == 2       \* player files

MD_bob == Put(Doc(<<>>), k_name, S("Bob"))
MD_lbob == Put(Doc(<<>>), k_name, S("bob"))
MD_anon == Doc(<<>>)
MD_rand == Doc((k_goal :> WeightedGoal))
MD_rname == Put(Doc(<<>>), k_name, M(<<W("Bob", 1), W("bob", 1)>>))
MD_bad == (k_game :> S("Chess"))
MD_arch == Put(Doc(<<>>), k_name, S("Archipelago"))

\* what a player file and the weights file can hold: a tuple of documents
PlayerFileContents == {<<MD_lbob>>, <<MD_rname, MD_bob>>}
WeightsFileContents ==
    {<<>>, <<MD_rand>>, <<MD_anon, MD_rand>>, <<MD_bob>>, <<MD_bad>>, <<MD_arch, MD_bob>>}

NoFile == [exists |-> FALSE, docs |-> <<>>]
File(docs) == [exists |-> TRUE, docs |-> docs]

\* the characters of a name scalar
NameChars(v) ==
    IF v = "Bob" THEN r_Bob ELSE IF v = "bob" THEN r_bob
    ELSE IF v = "Archipelago" THEN s_Archipelago ELSE <<v>>

\* os.path.splitext(os.path.split(path)[-1])[0] of the i-th player file
FileStem(i) == <<"f">> \o IntToStr(i)

\* f"Player{player}"
PlayerName(n) == <<"P", "l", "a", "y", "e", "r">> \o IntToStr(n)

Max(a, b) == IF a >= b THEN a ELSE b

\* lines 186-192: player_files, the file that serves each of the first slots
RECURSIVE player_files(_, _)
player_files(files, i) ==
    IF i > Len(files) THEN <<>>
    ELSE [j \in 1 .. Len(files[i]) |-> i] \o player_files(files, i + 1)

\* line 243: player_files.get(player, args.weights_file_path); 0 is the weights file
player_path_cache(files, n) ==
    IF n <= Len(player_files(files, 1)) THEN player_files(files, 1)[n] ELSE 0

\* random.seed() on the clock: the draws that follow are new to every run
Reseed_always(stream, pos, race) == SubSeq(stream, 1, pos)

\* lines 130-131: if args.race: random.seed()
Reseed(stream, pos, race) == IF race THEN SubSeq(stream, 1, pos) ELSE stream

\* the namespace roll_settings returns
Namespace(r) == [game |-> r.game, name |-> r.name, opts |-> r.opts]

\* tuple(roll_settings(yaml, args.plando) for yaml in yamls) from position p of s
RECURSIVE RollTuple(_, _, _, _, _, _)
RollTuple(yamls, heap, s, p, i, settings) ==
    IF i > Len(yamls) THEN [err |-> "ok", settings |-> settings, heap |-> heap, p |-> p]
    ELSE With(roll_settings(yamls[i], heap, s, p),
              LAMBDA r :
                 IF r.err # "ok"
                 THEN [err |-> r.err, settings |-> settings, heap |-> r.heap, p |-> r.p]
                 ELSE With(Append(settings, Namespace(r)),
                           LAMBDA next : RollTuple(yamls, r.heap, s, r.p, i + 1, next)))

\* lines 222-224 with args.sameoptions: the files of weights_cache rolled in order
RECURSIVE RollFiles(_, _, _, _, _, _)
RollFiles(files, heap, s, p, i, cache) ==
    IF i > Len(files) THEN [err |-> "ok", cache |-> cache, heap |-> heap, p |-> p]
    ELSE With(RollTuple(files[i], heap, s, p, 1, <<>>),
              LAMBDA r :
                 IF r.err # "ok"
                 THEN [err |-> r.err, cache |-> cache, heap |-> r.heap, p |-> r.p]
                 ELSE With(Append(cache, r.settings),
                           LAMBDA next : RollFiles(files, r.heap, s, r.p, i + 1, next)))

\* the streams that extend prefix as far as the rolls from position p read
RECURSIVE FilesStreams(_, _, _, _)
FilesStreams(files, heap, prefix, p) ==
    With(RollFiles(files, heap, prefix, p, 1, <<>>),
         LAMBDA r :
            IF r.p <= Len(prefix) THEN {prefix}
            ELSE UNION {FilesStreams(files, heap, next, p) :
                           next \in {Append(prefix, u) : u \in Draws}})

\* settings_cache when nothing is cached: None for every file
NoCache(files) == [files |-> [i \in 1 .. Len(files) |-> <<>>], weights |-> <<>>]

\* settings_cache from the tuples rolled for the player files and the weights file
Cache(files, weights, tuples) ==
    [files |-> SubSeq(tuples, 1, Len(files)),
     weights |-> IF weights.exists THEN tuples[Len(files) + 1] ELSE <<>>]

NoErargs == [name |-> <<>>, game |-> <<>>, opts |-> <<>>]

\* lines 255-260: every attribute of the namespace that is not None goes to erargs
SetAttrs(erargs, so, n) ==
    [name |-> IF so.name.t = "none" THEN erargs.name
              ELSE Put(erargs.name, n, NameChars(so.name.v)),
     game |-> Put(erargs.game, n, so.game),
     opts |-> Put(erargs.opts, n, so.opts)]

\* lines 265-271: the name handle_name is given
RawName(erargs, n, path) ==
    IF n \in DOMAIN erargs.name THEN erargs.name[n]
    ELSE IF path = 0 THEN PlayerName(n) ELSE FileStem(path)

\* lines 272-274 for the raw name; st = [err, player, erargs, counter]
NameStep(st, e, raw) ==
    With(handle_name(raw, st.player, st.counter),
         LAMBDA h :
            IF h.err # "ok"
            THEN [err |-> h.err, player |-> st.player, counter |-> h.counter,
                  erargs |-> [e EXCEPT !.name = Put(@, st.player, raw)]]
            ELSE [err |-> "ok", player |-> st.player + 1, counter |-> h.counter,
                  erargs |-> [e EXCEPT !.name = Put(@, st.player, h.name)]])

\* lines 255-274 for one settings object
AssignStep(st, so, path) ==
    With(SetAttrs(st.erargs, so, st.player),
         LAMBDA e : With(RawName(e, st.player, path), LAMBDA raw : NameStep(st, e, raw)))

\* the loop goes on to the next settings object after a failure
RECURSIVE AssignLoop_continue(_, _, _, _)
AssignLoop_continue(st, settings, i, path) ==
    IF i > Len(settings) THEN st
    ELSE With(AssignStep(st, settings[i], path),
              LAMBDA next : AssignLoop_continue(next, settings, i + 1, path))

\* lines 254-274: for settingsObject in settings
RECURSIVE AssignLoop(_, _, _, _)
AssignLoop(st, settings, i, path) ==
    IF i > Len(settings) \/ st.err # "ok" THEN st
    ELSE With(AssignStep(st, settings[i], path),
              LAMBDA next : AssignLoop(next, settings, i + 1, path))

\* the comparison of line 280 on the names as they are
NamesUnique_cased(names) ==
    Cardinality({names[n] : n \in DOMAIN names}) = Cardinality(DOMAIN names)

\* line 280: len(set(name.lower() for name in erargs.name.values())) == len(erargs.name)
NamesUnique(names) ==
    Cardinality({Lower(names[n]) : n \in DOMAIN names}) = Cardinality(DOMAIN names)

\* a run is about to start on one of the given arguments and files
MainInitOver(argsets, filesets, weightsets) ==
    /\ m_args \in argsets
    /\ m_files \in filesets
    /\ m_weights \in weightsets
    /\ m_heap = LibHeap
    /\ m_stream = <<>>
    /\ m_pos = 0
    /\ m_pc = "setup"
    /\ m_multi = 0
    /\ m_cache = NoCache(<<>>)
    /\ m_player = 0
    /\ m_counter = <<>>
    /\ m_erargs = NoErargs
    /\ m_outcome = "none"
    /\ m_run = 1
    /\ m_prev = NoOut

MainInit ==
    MainInitOver([multi : 0 .. MaxMulti, race : BOOLEAN, sameoptions : BOOLEAN],
                 UNION {[1 .. n -> PlayerFileContents] : n \in 0 .. MaxFiles},
                 {NoFile} \cup {File(docs) : docs \in WeightsFileContents})

\* the runs that the weights file alone serves
MainInitWeights ==
    MainInitOver([multi : 1 .. MaxMulti, race : {FALSE}, sameoptions : BOOLEAN],
                 {<<>>},
                 {File(docs) : docs \in WeightsFileContents})

\* the files of weights_cache in the order of line 184
CachedFiles == m_files \o (IF m_weights.exists THEN <<m_weights.docs>> ELSE <<>>)

\* how lines 194-224 end for args.multi = multi and the rolls r of settings_cache
SetupOutcome(multi, r) ==
    IF multi = 0 THEN "NoPlayers"
    ELSE IF CachedFiles = <<>> THEN "NoWeights"
    ELSE IF r.err # "ok" THEN "SettingsError"
    ELSE "none"

\* lines 125-247 on the stream s: what the run holds when the loop starts
SetupResult(multi, s) ==
    With(IF multi # 0 /\ CachedFiles # <<>> /\ m_args.sameoptions
         THEN RollFiles(CachedFiles, m_heap, s, 1, 1, <<>>)
         ELSE [err |-> "ok", cache |-> <<>>, heap |-> m_heap, p |-> 1],
         LAMBDA r :
            [multi |-> multi, stream |-> s, pos |-> r.p, heap |-> r.heap,
             outcome |-> SetupOutcome(multi, r),
             cache |-> IF SetupOutcome(multi, r) = "none" /\ m_args.sameoptions
                       THEN Cache(m_files, m_weights, r.cache)
                       ELSE NoCache(m_files)])

\* the results of lines 125-247 over the draws that are not known yet
SetupResults ==
    UNION {{SetupResult(multi, s) :
              s \in IF multi # 0 /\ CachedFiles # <<>> /\ m_args.sameoptions
                    THEN FilesStreams(CachedFiles, m_heap, seeded, 1)
                    ELSE {seeded}} :
           multi \in {Max(Len(player_files(m_files, 1)), m_args.multi)},
           seeded \in {Reseed(IF m_stream = <<>> THEN <<u>> ELSE m_stream, 1, m_args.race) :
                          u \in Draws}}

\* lines 125-247: the seed, the files, args.multi, settings_cache
MainSetup ==
    /\ m_pc = "setup"
    /\ \E r \in SetupResults :
          /\ m_multi' = r.multi
          /\ m_stream' = r.stream
          /\ m_pos' = r.pos
          /\ m_heap' = r.heap
          /\ m_outcome' = r.outcome
          /\ m_cache' = r.cache
          /\ m_pc' = IF r.outcome = "none" THEN "while" ELSE "done"
          /\ m_player' = IF r.outcome = "none" THEN 1 ELSE m_player
    /\ UNCHANGED <<m_args, m_files, m_weights, m_counter, m_erargs, m_run, m_prev>>
    /\ UNCHANGED <<choiceVars, nameVars, rollVars, mergeVars, linkVars, metaVars>>

\* line 248 and, past the loop, lines 280-283
MainWhile ==
    /\ m_pc = "while"
    /\ IF m_player <= m_multi
       THEN m_pc' = "body" /\ m_outcome' = m_outcome
       ELSE /\ m_pc' = "done"
            /\ m_outcome' = IF NamesUnique(m_erargs.name) THEN "returned"
                            ELSE "NamesNotUnique"
    /\ UNCHANGED <<m_args, m_files, m_weights, m_heap, m_stream, m_pos, m_multi, m_cache,
                   m_player, m_counter, m_erargs, m_run, m_prev>>
    /\ UNCHANGED <<choiceVars, nameVars, rollVars, mergeVars, linkVars, metaVars>>

\* the file that serves m_player, its documents and its cached settings
ServingPath == player_path_cache(m_files, m_player)
ServingDocs == IF ServingPath = 0 THEN m_weights.docs ELSE m_files[ServingPath]
ServingCache == IF ServingPath = 0 THEN m_cache.weights ELSE m_cache.files[ServingPath]

\* lines 252-274 on the stream s: the settings of the file, then the assignments
BodyResult(s) ==
    With(IF ServingCache = <<>>
         THEN RollTuple(ServingDocs, m_heap, s, m_pos, 1, <<>>)
         ELSE [err |-> "ok", settings |-> ServingCache, heap |-> m_heap, p |-> m_pos],
         LAMBDA r :
    With(AssignLoop([err |-> "ok", player |-> m_player, erargs |-> m_erargs,
                     counter |-> m_counter],
                    IF r.err = "ok" THEN r.settings ELSE <<>>, 1, ServingPath),
         LAMBDA st :
            [stream |-> s, pos |-> r.p, heap |-> r.heap, player |-> st.player,
             counter |-> st.counter, erargs |-> st.erargs,
             outcome |-> IF r.err # "ok" \/ st.err # "ok" THEN "FileInvalid" ELSE "none"]))

\* the results of one pass over the draws that are not known yet; a weights file
\* that does not exist is a KeyError of line 252
BodyResults ==
    IF ServingPath = 0 /\ ~m_weights.exists
    THEN {[stream |-> m_stream, pos |-> m_pos, heap |-> m_heap, player |-> m_player,
           counter |-> m_counter, erargs |-> m_erargs, outcome |-> "FileInvalid"]}
    ELSE {BodyResult(s) :
            s \in IF ServingCache = <<>>
                  THEN FilesStreams(<<ServingDocs>>, m_heap, m_stream, m_pos)
                  ELSE {m_stream}}

\* lines 249-278: one pass of the body of the loop
MainBody ==
    /\ m_pc = "body"
    /\ \E r \in BodyResults :
          /\ m_stream' = r.stream
          /\ m_pos' = r.pos
          /\ m_heap' = r.heap
          /\ m_player' = r.player
          /\ m_counter' = r.counter
          /\ m_erargs' = r.erargs
          /\ m_outcome' = r.outcome
          /\ m_pc' = IF r.outcome = "none" THEN "while" ELSE "done"
    /\ UNCHANGED <<m_args, m_files, m_weights, m_multi, m_cache, m_run, m_prev>>
    /\ UNCHANGED <<choiceVars, nameVars, rollVars, mergeVars, linkVars, metaVars>>

\* what a run hands on: how it ended and the records of erargs
Result == [outcome |-> m_outcome, erargs |-> m_erargs]

\* a second, independent run of main on the same seed and the same files
MainRestart ==
    /\ m_pc = "done"
    /\ m_run = 1
    /\ m_prev' = Result
    /\ m_run' = 2
    /\ m_pc' = "setup"
    /\ m_pos' = 0
    /\ m_heap' = LibHeap
    /\ m_multi' = 0
    /\ m_cache' = NoCache(<<>>)
    /\ m_player' = 0
    /\ m_counter' = <<>>
    /\ m_erargs' = NoErargs
    /\ m_outcome' = "none"
    /\ UNCHANGED <<m_args, m_files, m_weights, m_stream>>
    /\ UNCHANGED <<choiceVars, nameVars, rollVars, mergeVars, linkVars, metaVars>>

MainNext == MainSetup \/ MainWhile \/ MainBody \/ MainRestart

InitMain == MainInit /\ ChoiceIdle /\ NameIdle /\ RollIdle /\ MergeIdle /\ LinkIdle /\ MetaIdle

SpecMain == InitMain /\ [][MainNext]_vars

InitMainWeights == MainInitWeights /\ ChoiceIdle /\ NameIdle /\ RollIdle /\ MergeIdle /\ LinkIdle /\ MetaIdle

\* the interpreter always takes the next step of the run
SpecMainFair == InitMainWeights /\ [][MainNext]_vars /\ WF_vars(MainNext)

C3_SlotsExact ==
    /\ m_pc \in {"while", "body", "done"} =>
          (DOMAIN m_erargs.name \subseteq 1 .. m_multi
             /\ DOMAIN m_erargs.game \subseteq 1 .. m_multi)
    /\ m_outcome = "returned" =>
          (DOMAIN m_erargs.name = 1 .. m_multi /\ DOMAIN m_erargs.game = 1 .. m_multi)

\* C4: the participant loop terminates: the run ends, with every participant
\* resolved or with an error.
C4_Terminates == <>(m_pc = "done")

\* a document no participant can be resolved from: its game is not registered,
\* or its name is the reserved one
Unresolvable(doc) == doc = MD_bad \/ doc = MD_arch
\* the documents of the file that serves participant p
DocsServing(p) ==
    IF player_path_cache(m_files, p) = 0 THEN m_weights.docs
    ELSE m_files[player_path_cache(m_files, p)]
RunFailed == m_pc = "done" /\ m_outcome \notin {"returned", "none"}

\* C27: when the resolution of a participant fails the run ends there with an
\* error: no participant after the failing one has a game or a name, main does
\* not return, and the ended run takes no further step (the next step is the
\* start of another run); a run that returns has resolved every participant,
\* and none of the files serving them holds a document that cannot be resolved.
C27_FailureStops ==
    /\ [](m_outcome = "FileInvalid" =>
            /\ m_pc = "done"
            /\ DOMAIN m_erargs.name \subseteq 1 .. m_player
            /\ DOMAIN m_erargs.game \subseteq 1 .. m_player)
    /\ []((\E p \in DOMAIN m_erargs.name : m_erargs.name[p] = s_Archipelago) => RunFailed)
    /\ [](m_outcome = "returned" =>
            /\ m_pc = "done"
            /\ 1 .. m_multi \subseteq DOMAIN m_erargs.name \cap DOMAIN m_erargs.game
            /\ \A p \in 1 .. m_multi :
                  \A d \in DOMAIN DocsServing(p) : ~Unresolvable(DocsServing(p)[d]))
    /\ [][RunFailed => (m_run' = m_run + 1 /\ m_pc' = "setup" /\ m_prev'.outcome = m_outcome)]_vars

\* the second document of the weights file is named Archipelago: the run ended
\* at participant 1 with the error of the file, and participant 2 has nothing
C27_Witness ==
    /\ RunFailed /\ m_outcome = "FileInvalid"
    /\ m_weights = File(<<MD_arch, MD_bob>>) /\ m_files = <<>>
    /\ m_multi = 2 /\ m_player = 1
    /\ m_erargs.name[1] = s_Archipelago
    /\ 2 \notin DOMAIN m_erargs.name

\* two participants whose names are equal after lower-casing
SameLowerNames ==
    \E p1, p2 \in DOMAIN m_erargs.name :
        p1 # p2 /\ Lower(m_erargs.name[p1]) = Lower(m_erargs.name[p2])

\* C9: main fails with the name-uniqueness error exactly when, every
\* participant having been named, two names are equal after lower-casing; the
\* comparison is made once, past the loop; a run that returns has names that
\* are pairwise distinct after lower-casing.
C9_NameUniqueness ==
    /\ m_outcome = "NamesNotUnique" =>
          (m_pc = "done" /\ m_player > m_multi /\ SameLowerNames
             /\ 1 .. m_multi \subseteq DOMAIN m_erargs.name)
    /\ m_outcome = "returned" =>
          (m_pc = "done" /\ m_player > m_multi /\ ~SameLowerNames
             /\ 1 .. m_multi \subseteq DOMAIN m_erargs.name)
    /\ m_pc \in {"while", "body"} => m_outcome = "none"
    /\ (m_pc = "done" /\ m_outcome \notin {"NamesNotUnique", "returned"}) =>
          m_player <= m_multi

C9_Witness ==
    /\ m_outcome = "NamesNotUnique"
    /\ \E p1, p2 \in DOMAIN m_erargs.name :
          /\ m_erargs.name[p1] = r_Bob
          /\ m_erargs.name[p2] = r_bob

====
